---- MODULE Spec2Model ----
(***************************************************************************)
(* newsyacht: the feed store (newsyacht/db.py), the ingestion pipeline     *)
(* (newsyacht/cli.py: App.update, update_feeds), the parts of the feed     *)
(* model (newsyacht/models.py) they use, the subscription list             *)
(* (newsyacht/config.py) and the scoring model (newsyacht/scoring.py).     *)
(*                                                                         *)
(* Python values: a `str | None` is a TLA+ string, None being the string   *)
(* None below; a `datetime | None` is a tuple <<utc instant, utc offset>>  *)
(* (minutes), None being the empty tuple.  A float score x is the integer  *)
(* ceil(10000 * x), so that 0 stands for 0.0 alone.  A table is the set of *)
(* its rows.                                                               *)
(***************************************************************************)
EXTENDS Integers, Sequences, FiniteSets, TLC

None == "None"
NoDate == << >>

\* The text of a date element that is not a date in the format expected.
BadDate == <<"bad">>

\* str.endswith
EndsWith(s, suffix) ==
    /\ Len(s) >= Len(suffix)
    /\ SubSeq(s, Len(s) - Len(suffix) + 1, Len(s)) = suffix

\* Python truthiness of a `str | None`: None and "" are falsy.
Truthy(x) == x # None /\ x # ""

\* `new or old`
Or(new, old) == IF Truthy(new) THEN new ELSE old

(***************************************************************************)
(* Bounds of the model.                                                    *)
(***************************************************************************)
MaxRuns == 2      \* update runs in one behaviour
MaxReads == 1     \* items marked read between the runs of one behaviour
MaxCalls == 3     \* Db calls in one behaviour of the Db methods alone

Last(s) == s[Len(s)]

(***************************************************************************)
(* Item (models.py): the parsed entry.                                     *)
(***************************************************************************)
\* Item.__post_init__: guid from the raw guid, else the link, else the
\* sha256 of the content; ValueError when none is available.
HasGuid(raw) == Truthy(raw.raw_guid) \/ Truthy(raw.link) \/ Truthy(raw.content)

sha256(content) == "sha256:" \o content

\* the link ahead of the feed's GUID
ItemGuid_link_first(raw) ==
    IF Truthy(raw.link) THEN raw.link
    ELSE IF Truthy(raw.raw_guid) THEN raw.raw_guid
    ELSE sha256(raw.content)

ItemGuid(raw) ==
    IF Truthy(raw.raw_guid) THEN raw.raw_guid
    ELSE IF Truthy(raw.link) THEN raw.link
    ELSE sha256(raw.content)

\* datetime.astimezone(UTC): same instant, offset 0.
astimezone_utc(d) == <<d[1], 0>>

\* Item.date_str
date_str(date) == IF date = NoDate THEN NoDate ELSE astimezone_utc(date)

(***************************************************************************)
(* The store (db.py).  A transaction state is [rows, seq, err]: the rows   *)
(* of the table, the AUTOINCREMENT counter of the table (sqlite_sequence;  *)
(* 0 for a table without one) and the exception raised, None when none.    *)
(***************************************************************************)
MaxId(rows) ==
    IF rows = {} THEN 0
    ELSE CHOOSE m \in {r.id : r \in rows} : \A r \in rows : r.id <= m

\* A parameter value sqlite3 cannot bind (any object that is no str, number,
\* bytes or None): executemany raises ProgrammingError on it.
Unbindable == "<object>"

with_conn_autocommit(before, after) == after

\* `with self.conn:` commits when the block returns and rolls back when it
\* raises; the exception propagates.
with_conn(before, after) ==
    IF after.err = None THEN after ELSE [before EXCEPT !.err = after.err]

FeedRow(id, url, color) ==
    [id |-> id, url |-> url, color |-> color, title |-> None,
     description |-> None, etag |-> None, last_modified |-> None]

insert_url_keep_color(st, u) ==
    IF u.link = None THEN [st EXCEPT !.err = "IntegrityError"]
    ELSE IF \E r \in st.rows : r.url = u.link
    THEN [st EXCEPT !.seq = st.seq + 1]
    ELSE [rows |-> st.rows \cup {FeedRow(st.seq + 1, u.link, u.color)},
          seq |-> st.seq + 1, err |-> None]

\* INSERT INTO feeds (url, color) VALUES (?, ?)
\* ON CONFLICT(url) DO UPDATE SET color = excluded.color
\* url is NOT NULL UNIQUE; id is AUTOINCREMENT: SQLite allocates the next id
\* before it detects the conflict, so an upsert that updates also advances
\* the counter.
insert_url(st, u) ==
    IF u.link = None THEN [st EXCEPT !.err = "IntegrityError"]
    ELSE IF \E r \in st.rows : r.url = u.link
    THEN [rows |-> {IF r.url = u.link THEN [r EXCEPT !.color = u.color] ELSE r
                    : r \in st.rows},
          seq |-> st.seq + 1, err |-> None]
    ELSE [rows |-> st.rows \cup {FeedRow(st.seq + 1, u.link, u.color)},
          seq |-> st.seq + 1, err |-> None]

\* UPDATE feeds SET etag = ?, last_modified = ?, title = ?, description = ?
\* WHERE id = ?
update_feed(st, f) ==
    IF Unbindable \in {f.etag, f.last_modified, f.title, f.description}
    THEN [st EXCEPT !.err = "ProgrammingError"]
    ELSE [st EXCEPT !.rows =
            {IF r.id = f.id
             THEN [r EXCEPT !.etag = f.etag, !.last_modified = f.last_modified,
                            !.title = f.title, !.description = f.description]
             ELSE r : r \in st.rows}]

\* The parameter tuple insert_items builds for one (feed_id, score, item).
ItemParams(t) ==
    [feed_id |-> t.feed_id, guid |-> t.item.guid, title |-> t.item.title,
     content |-> t.item.content, link |-> t.item.link, author |-> t.item.author,
     date |-> date_str(t.item.date), comments |-> t.item.comments,
     thumbnail |-> t.item.thumbnail, score |-> t.score]

ItemRow(id, p) ==
    [id |-> id, feed_id |-> p.feed_id, is_read |-> FALSE, score |-> p.score,
     title |-> p.title, content |-> p.content, link |-> p.link,
     author |-> p.author, comments |-> p.comments, thumbnail |-> p.thumbnail,
     date |-> p.date, guid |-> p.guid]

UpdateItemRow(r, p) ==
    [r EXCEPT !.title = p.title, !.content = p.content, !.link = p.link,
              !.author = p.author, !.date = p.date, !.comments = p.comments,
              !.thumbnail = p.thumbnail, !.score = p.score]

insert_item_ignore(st, p) ==
    IF p.guid = None THEN [st EXCEPT !.err = "IntegrityError"]
    ELSE IF \E r \in st.rows : r.feed_id = p.feed_id /\ r.guid = p.guid
    THEN st
    ELSE [st EXCEPT !.rows = st.rows \cup {ItemRow(MaxId(st.rows) + 1, p)}]

insert_item_reset_read(st, p) ==
    IF p.guid = None THEN [st EXCEPT !.err = "IntegrityError"]
    ELSE [st EXCEPT !.rows =
            {r \in st.rows : ~(r.feed_id = p.feed_id /\ r.guid = p.guid)}
            \cup {ItemRow(MaxId(st.rows) + 1, p)}]

\* INSERT INTO items (...) VALUES (...)
\* ON CONFLICT(feed_id, guid) DO UPDATE SET title = excluded.title, ...
\* guid is NOT NULL; id is the rowid (INTEGER PRIMARY KEY): one more than the
\* largest id of the table.
insert_item(st, p) ==
    IF p.guid = None THEN [st EXCEPT !.err = "IntegrityError"]
    ELSE IF \E r \in st.rows : r.feed_id = p.feed_id /\ r.guid = p.guid
    THEN [st EXCEPT !.rows =
            {IF r.feed_id = p.feed_id /\ r.guid = p.guid
             THEN UpdateItemRow(r, p) ELSE r : r \in st.rows}]
    ELSE [st EXCEPT !.rows = st.rows \cup {ItemRow(MaxId(st.rows) + 1, p)}]

\* The parameter tuple insert_items of the package module (__init__.py)
\* builds for one (feed_id, score, item).
PkgItemParams(t) ==
    [feed_id |-> t.feed_id, guid |-> t.item.guid, title |-> t.item.title,
     content |-> t.item.content, link |-> t.item.link, author |-> t.item.author,
     date |-> date_str(t.item.date), comments |-> t.item.comments,
     score |-> t.score]

\* insert_items of the package module:
\* INSERT INTO items (feed_id, guid, title, content, link, author, date,
\* comments, score) ... ON CONFLICT(feed_id, guid) DO UPDATE SET ...: the
\* statement names no thumbnail.
pkg_insert_item(st, p) ==
    IF p.guid = None THEN [st EXCEPT !.err = "IntegrityError"]
    ELSE IF \E r \in st.rows : r.feed_id = p.feed_id /\ r.guid = p.guid
    THEN [st EXCEPT !.rows =
            {IF r.feed_id = p.feed_id /\ r.guid = p.guid
             THEN [r EXCEPT !.title = p.title, !.content = p.content,
                            !.link = p.link, !.author = p.author,
                            !.date = p.date, !.comments = p.comments,
                            !.score = p.score]
             ELSE r : r \in st.rows}]
    ELSE [st EXCEPT !.rows = st.rows \cup
            {[id |-> MaxId(st.rows) + 1, feed_id |-> p.feed_id,
              is_read |-> FALSE, score |-> p.score, title |-> p.title,
              content |-> p.content, link |-> p.link, author |-> p.author,
              comments |-> p.comments, thumbnail |-> None, date |-> p.date,
              guid |-> p.guid]}]

\* conn.execute(sql, parameters) for the statements of the program
execute(sql, st, p) ==
    CASE sql = "INSERT INTO feeds" -> insert_url(st, p)
      [] sql = "UPDATE feeds" -> update_feed(st, p)
      [] sql = "INSERT INTO items" -> insert_item(st, p)
      [] sql = "INSERT INTO items (package)" -> pkg_insert_item(st, p)

\* executemany: the statement is run for each element in order and stops at
\* the first that raises.
executemany(sql, st0, batch) ==
    LET run[i \in 0..Len(batch)] ==
            IF i = 0 THEN st0
            ELSE IF run[i - 1].err # None THEN run[i - 1]
            ELSE execute(sql, run[i - 1], batch[i])
    IN run[Len(batch)]

\* Db.insert_urls
Db_insert_urls(st, urls) == with_conn(st, executemany("INSERT INTO feeds", st, urls))

\* Db.update_feeds
Db_update_feeds(st, fs) == with_conn(st, executemany("UPDATE feeds", st, fs))

\* Db.insert_items
Db_insert_items(st, batch) ==
    with_conn(st, executemany("INSERT INTO items", st,
                              [i \in 1..Len(batch) |-> ItemParams(batch[i])]))

\* Db.set_read: UPDATE items SET is_read = 1 WHERE id = ?
Db_set_read(rows, item_id) ==
    {IF r.id = item_id THEN [r EXCEPT !.is_read = TRUE] ELSE r : r \in rows}

\* The order of `ORDER BY url` on the URLs of the model.
UrlOrder == <<"a", "b">>
UrlRank(u) == CHOOSE i \in 1..Len(UrlOrder) : UrlOrder[i] = u

DbFeed(r) ==
    [id |-> r.id, url |-> r.url, title |-> r.title,
     description |-> r.description, etag |-> r.etag,
     last_modified |-> r.last_modified]

\* Db.get_feeds: the rows whose url is listed, ordered by url.
Db_get_feeds(rows, links) ==
    LET sel == {r \in rows : \E i \in 1..Len(links) : links[i] = r.url}
        ranks == {UrlRank(r.url) : r \in sel}
        nth[i \in 1..Cardinality(sel)] ==
            CHOOSE r \in sel :
                Cardinality({q \in ranks : q < UrlRank(r.url)}) = i - 1
    IN [i \in 1..Cardinality(sel) |-> DbFeed(nth[i])]

\* substr(items.date, 1, 10): the UTC day of the stored text, which
\* date_str wrote in UTC; NULL for NULL.  Days are numbered from day 0.
MinutesPerDay == 1440
NullDay == -1
DayOfText(date) == IF date = NoDate THEN NullDay ELSE date[1] \div MinutesPerDay

\* ORDER BY on the full timestamp instead of its first ten characters
SortKey_timestamp(row) ==
    <<IF row.date = NoDate THEN NullDay ELSE row.date[1], row.score>>

\* ORDER BY substr(items.date, 1, 10) DESC, items.score DESC: the keys of a
\* row.  NULL sorts below every value, that is last in descending order.
SortKey(row) == <<DayOfText(row.date), row.score>>

\* a may stand before b in the result
InOrder(a, b) ==
    \/ SortKey(a)[1] > SortKey(b)[1]
    \/ SortKey(a)[1] = SortKey(b)[1] /\ SortKey(a)[2] >= SortKey(b)[2]

\* The results ORDER BY allows for a set of rows: the order of the rows with
\* equal keys is not determined.
OrderBy(rows) ==
    {s \in [1..Cardinality(rows) -> rows] :
        /\ \A i, j \in DOMAIN s : i # j => s[i] # s[j]
        /\ \A i, j \in DOMAIN s : i < j => InOrder(s[i], s[j])}

\* An optional argument: << >> for None, <<v>> for the value v.
Some(v) == <<v>>

\* The filters of a query: link_not_null, read (optional), days (optional)
\* with the value of 'now', feed_id (optional).
Filter(link_not_null, read, days, now, feed_id) ==
    [link_not_null |-> link_not_null, read |-> read, days |-> days,
     now |-> now, feed_id |-> feed_id]

\* WHERE: the conjunction of the filters given.  A comparison with a NULL
\* date is not true.
Where(r, f) ==
    /\ f.link_not_null => r.link # None
    /\ f.read # << >> => r.is_read = f.read[1]
    /\ f.days # << >> =>
        (r.date # NoDate /\ r.date[1] >= f.now - f.days[1] * MinutesPerDay)
    /\ f.feed_id # << >> => r.feed_id = f.feed_id[1]

\* SELECT ... FROM items JOIN feeds ON feeds.id = items.feed_id: one row per
\* item whose feed is stored, with COALESCE(items.author, feeds.title) as
\* author and the color of the feed.
Joined(tfeeds, titems, f) ==
    {[id |-> r.id, feed_id |-> r.feed_id, is_read |-> r.is_read,
      score |-> r.score, title |-> r.title, content |-> r.content,
      link |-> r.link, thumbnail |-> r.thumbnail,
      author |-> IF r.author # None THEN r.author ELSE q.title,
      comments |-> r.comments, date |-> r.date, guid |-> r.guid,
      color |-> q.color]
        : <<r, q>> \in {x \in titems \X tfeeds :
                          x[2].id = x[1].feed_id /\ Where(x[1], f)}}

\* DbItem.from_row: the inner Item is constructed from the columns, the
\* date and the guid of the row as _raw_date and _raw_guid.
DbItem_from_row(row) ==
    [id |-> row.id, feed_id |-> row.feed_id, is_read |-> row.is_read,
     score |-> row.score, color |-> row.color,
     inner |-> [title |-> row.title, content |-> row.content,
                link |-> row.link, author |-> row.author,
                comments |-> row.comments, date |-> row.date,
                guid |-> IF Truthy(row.guid) THEN row.guid
                         ELSE IF Truthy(row.link) THEN row.link
                         ELSE "sha256:" \o row.content]]

\* Db._get_posts: the results the query may give, as lists of DbItem.
Db__get_posts(tfeeds, titems, f) ==
    {[i \in DOMAIN s |-> DbItem_from_row(s[i])]
        : s \in OrderBy(Joined(tfeeds, titems, f))}

\* Db.get_posts(days, read): the link filter is always given.
Db_get_posts(tfeeds, titems, days, read, now) ==
    Db__get_posts(tfeeds, titems, Filter(TRUE, read, days, now, << >>))

\* Db.get_posts_by_id(feed_id)
Db_get_posts_by_id(tfeeds, titems, feed_id) ==
    Db__get_posts(tfeeds, titems, Filter(FALSE, << >>, << >>, 0, Some(feed_id)))

(***************************************************************************)
(* Feed documents.  A response body is named by a string; Xml gives the    *)
(* document it holds: whether it is well-formed XML, its root tag, the     *)
(* number of <channel> elements, the feed-level title and description and  *)
(* its entries.  An entry gives the text of each child element (None when  *)
(* the child is missing) and its dates as parsed datetimes.                *)
(***************************************************************************)
Entry(id, link, content, title, author, comments, pubDate, published, updated, thumb) ==
    [id |-> id, link |-> link, content |-> content, title |-> title,
     author |-> author, comments |-> comments, pubDate |-> pubDate,
     published |-> published, updated |-> updated, thumbnail |-> thumb]

E1 == Entry("g1", "l1", "c1", "A", "au", None, <<600, 120>>, <<600, 120>>,
            <<660, 0>>, None)
\* the same entry after an edit: same id, every other field changed
E1b == Entry("g1", "l2", "c2", "A2", "au2", "cm", <<720, 0>>, NoDate,
             <<720, 60>>, "th")
\* no id: the guid is the link
E2 == Entry(None, "l3", None, "B", None, None, NoDate, NoDate, NoDate, None)
\* no id, no link, no content
Ebad == Entry(None, None, None, "C", None, None, NoDate, NoDate, NoDate, None)

Doc(wellformed, root, channels, title, description, entries) ==
    [wellformed |-> wellformed, root |-> root, channels |-> channels,
     title |-> title, description |-> description, entries |-> entries]

Xml ==
    [d \in {"rss1", "atom2", "bare", "html", "garbage", "noid", "undated"} |->
        CASE d = "rss1" -> Doc(TRUE, "rss", 1, "T1", "D1", <<E1>>)
          [] d = "atom2" -> Doc(TRUE, "feed", 0, "T2", "D2", <<E2, E1b>>)
          [] d = "bare" -> Doc(TRUE, "rss", 1, None, None, << >>)
          [] d = "html" -> Doc(TRUE, "html", 0, "T3", None, << >>)
          [] d = "garbage" -> Doc(FALSE, None, 0, None, None, << >>)
          [] d = "noid" -> Doc(TRUE, "rss", 1, "T1", "D1", <<E1, Ebad>>)
          [] d = "undated" -> Doc(TRUE, "rss", 1, "T4", None, <<E2, E1>>)]

Docs == DOMAIN Xml

(***************************************************************************)
(* Item and Feed (models.py).                                              *)
(***************************************************************************)
\* Item(...) after __post_init__; raw is the constructor's arguments.
Item(raw) ==
    [title |-> raw.title, content |-> raw.content, link |-> raw.link,
     author |-> raw.author, comments |-> raw.comments, date |-> raw.raw_date,
     guid |-> ItemGuid(raw)]

\* Item.thumbnail, which Db.insert_items reads: the attribute is set by the
\* parser of the revision of models.py that db.py belongs to.  It is an
\* optional text taken from the entry.
WithThumbnail(item, thumbnail) ==
    [title |-> item.title, content |-> item.content, link |-> item.link,
     author |-> item.author, comments |-> item.comments, date |-> item.date,
     guid |-> item.guid, thumbnail |-> thumbnail]

\* Feed._from_rss: the arguments of Item(...) for one <item>; pubDate is
\* converted to UTC.  item.find("dc:creator") compares the literal text
\* dc:creator with the tags of the children, which carry the namespace URI
\* ({http://purl.org/dc/elements/1.1/}creator): it finds no child.
RssItemArgs(e) ==
    [title |-> e.title, link |-> e.link, content |-> e.content,
     author |-> None, comments |-> e.comments,
     raw_date |-> IF e.pubDate = NoDate THEN NoDate
                  ELSE astimezone_utc(e.pubDate),
     raw_guid |-> e.id, thumbnail |-> e.thumbnail]

\* Feed._from_atom: published, else updated.
AtomItemArgs(e) ==
    [title |-> e.title, link |-> e.link, content |-> e.content,
     author |-> e.author, comments |-> e.comments,
     raw_date |-> IF e.published # NoDate THEN e.published ELSE e.updated,
     raw_guid |-> e.id, thumbnail |-> e.thumbnail]

ParseError(err) ==
    [err |-> err, title |-> None, description |-> None, items |-> << >>]

\* Item.__post_init__: the exception raised, None when none.  ValueError
\* when there is nothing to derive a guid from, and from
\* datetime.fromisoformat when _raw_date is not an ISO date.
ItemErr(raw) ==
    IF ~HasGuid(raw) THEN "ValueError"
    ELSE IF raw.raw_date = BadDate THEN "ValueError"
    ELSE None

\* A parser that leaves out the entries whose Item(...) raises.
MakeFeed_skip_bad(doc, args) ==
    LET good == {i \in 1..Len(args) : ItemErr(args[i]) = None}
        nth[k \in 1..Cardinality(good)] ==
            CHOOSE i \in good : Cardinality({j \in good : j < i}) = k - 1
    IN [err |-> None, title |-> doc.title, description |-> doc.description,
        items |-> [k \in 1..Cardinality(good) |->
                     WithThumbnail(Item(args[nth[k]]), args[nth[k]].thumbnail)]]

\* The Feed built from the constructor arguments of its items, or the
\* exception of the first Item(...) that raises.
MakeFeed(doc, args) ==
    IF \E i \in 1..Len(args) : ItemErr(args[i]) # None
    THEN ParseError("ValueError")
    ELSE [err |-> None, title |-> doc.title, description |-> doc.description,
          items |-> [i \in 1..Len(args) |->
                        WithThumbnail(Item(args[i]), args[i].thumbnail)]]

\* Feed._from_rss: the assert on the channels, then the items in order;
\* parsedate_to_datetime raises ValueError on a pubDate it cannot parse.
FromRss(doc) ==
    IF doc.channels # 1 THEN ParseError("AssertionError")
    ELSE IF \E i \in 1..Len(doc.entries) : doc.entries[i].pubDate = BadDate
    THEN ParseError("ValueError")
    ELSE MakeFeed(doc, [i \in 1..Len(doc.entries) |->
                           RssItemArgs(doc.entries[i])])

\* Feed._from_atom
FromAtom(doc) ==
    MakeFeed(doc, [i \in 1..Len(doc.entries) |-> AtomItemArgs(doc.entries[i])])

\* Feed.from_xml on a document: [err, title, description, items], err the
\* exception raised (None when a Feed is returned).
Feed_from_xml(doc) ==
    IF ~doc.wellformed THEN ParseError("ParseError")
    ELSE IF doc.root = "rss" THEN FromRss(doc)
    ELSE IF EndsWith(doc.root, "feed") THEN FromAtom(doc)
    ELSE ParseError("ValueError")

\* Feed.from_xml on the body named text
from_xml(text) == Feed_from_xml(Xml[text])

DbFeed_update_overwrite(feed, etag, last_modified, body) ==
    [feed EXCEPT !.title = body.title, !.description = body.description,
                 !.etag = etag, !.last_modified = last_modified]

\* DbFeed.update
DbFeed_update(feed, etag, last_modified, body) ==
    [feed EXCEPT !.title = Or(body.title, feed.title),
                 !.description = Or(body.description, feed.description),
                 !.etag = Or(etag, feed.etag),
                 !.last_modified = Or(last_modified, feed.last_modified)]

(***************************************************************************)
(* The ingestion pipeline (cli.py).                                        *)
(***************************************************************************)
\* random.random() is in [0, 1): the jitter 0.1 * random.random(), in units
\* of 1/10000, at the two ends of its range.
Jitter == {0, 999}

\* math.exp(-(count + eps / 10000)) as a double, for the counts and jitters
\* of the model: exp(-745) and exp(-745.0999) are the least positive double
\* 5e-324, and from exp(-746) on the result underflows to 0.0.
ExpTable(count, eps) ==
    CASE count = 0 -> IF eps = 0 THEN 10000 ELSE 9050
      [] count = 1 -> IF eps = 0 THEN 3679 ELSE 3330
      [] count = 2 -> IF eps = 0 THEN 1354 ELSE 1225
      [] count = 3 -> IF eps = 0 THEN 498 ELSE 451
      [] count = 745 -> 1
      [] count >= 746 -> 0

\* initial_score, eps being the value drawn.
initial_score(count, eps) == ExpTable(count, eps)

UserAgent == "newsyacht/0.1.0"

\* The request headers update_feeds builds for one feed.
headers(feed) ==
    LET h0 == "user-agent" :> UserAgent
        h1 == IF Truthy(feed.etag) THEN h0 @@ ("if-none-match" :> feed.etag)
              ELSE h0
    IN IF Truthy(feed.last_modified)
       THEN h1 @@ ("if-modified-since" :> feed.last_modified)
       ELSE h1

\* What httpx.get gives: an exception raised (exc), or a response.
Response(exc, status_code, etag, last_modified, text) ==
    [exc |-> exc, status_code |-> status_code, etag |-> etag,
     last_modified |-> last_modified, text |-> text]

\* The responses of the model: the two exceptions, 304, 404, and 200 with
\* validators (both new, a new ETag with an empty Last-Modified, an empty
\* ETag with a new Last-Modified, none) over the documents.
Responses ==
    {Response("TimeoutException", 0, None, None, "garbage"),
     Response("ConnectError", 0, None, None, "garbage"),
     Response(None, 304, "e2", None, "rss1"),
     Response(None, 404, None, None, "html"),
     Response(None, 200, "e1", "m1", "rss1"),
     Response(None, 200, "e2", "", "atom2"),
     Response(None, 200, "", "m2", "bare"),
     Response(None, 200, None, None, "rss1"),
     Response(None, 200, "e1", "m1", "html"),
     Response(None, 200, "e1", "m1", "garbage"),
     Response(None, 200, "e1", "m1", "noid")}

\* The items a response yields: the number of jitter values drawn for it.
NItems(resp) ==
    IF resp.exc = None /\ resp.status_code = 200
    THEN Len(from_xml(resp.text).items) ELSE 0

Skip(feed) == [exc |-> None, feed |-> feed, items |-> << >>]

Raise(exc, feed) == [exc |-> exc, feed |-> feed, items |-> << >>]

\* The 200 branch of update_feeds for a body that parsed.
Accept(feed, resp, body, eps) ==
    [exc |-> None,
     feed |-> DbFeed_update(feed, resp.etag, resp.last_modified, body),
     items |-> [i \in 1..Len(body.items) |->
                  [feed_id |-> feed.id,
                   score |-> initial_score(i - 1, eps[i]),
                   item |-> body.items[i]]]]

\* update_feeds without the 304 branch ahead of the 200 branch: a 304 is
\* handled as a 200.
fetch_one_304_as_200(feed, resp, eps) ==
    IF resp.exc = "TimeoutException" THEN Skip(feed)
    ELSE IF resp.exc # None THEN Raise(resp.exc, feed)
    ELSE IF resp.status_code \in {200, 304}
    THEN LET body == from_xml(resp.text) IN
         IF body.err # None THEN Raise(body.err, feed)
         ELSE Accept(feed, resp, body,
                     [i \in 1..Len(body.items) |->
                        IF i \in DOMAIN eps THEN eps[i] ELSE 0])
    ELSE Skip(feed)

\* update_feeds without the except clause: a timeout leaves the loop.
fetch_one_timeout_raises(feed, resp, eps) ==
    IF resp.exc # None THEN Raise(resp.exc, feed)
    ELSE IF resp.status_code = 304 THEN Skip(feed)
    ELSE IF resp.status_code = 200
    THEN LET body == from_xml(resp.text) IN
         IF body.err # None THEN Raise(body.err, feed)
         ELSE Accept(feed, resp, body, eps)
    ELSE Skip(feed)

\* update_feeds with the parse in a try block that logs and goes on.
fetch_one_parse_error_skipped(feed, resp, eps) ==
    IF resp.exc = "TimeoutException" THEN Skip(feed)
    ELSE IF resp.exc # None THEN Raise(resp.exc, feed)
    ELSE IF resp.status_code = 304 THEN Skip(feed)
    ELSE IF resp.status_code = 200
    THEN LET body == from_xml(resp.text) IN
         IF body.err # None THEN Skip(feed)
         ELSE Accept(feed, resp, body, eps)
    ELSE Skip(feed)

\* One iteration of the loop of update_feeds, after the request is sent:
\* [exc, feed, items], exc the exception that escapes (None when the loop
\* goes on), feed the DbFeed afterwards, items the tuples appended.
\* eps[i] is the jitter drawn for the i-th item.
fetch_one(feed, resp, eps) ==
    IF resp.exc = "TimeoutException" THEN Skip(feed)
    ELSE IF resp.exc # None THEN Raise(resp.exc, feed)
    ELSE IF resp.status_code = 304 THEN Skip(feed)
    ELSE IF resp.status_code = 200
    THEN LET body == from_xml(resp.text) IN
         IF body.err # None THEN Raise(body.err, feed)
         ELSE Accept(feed, resp, body, eps)
    ELSE Skip(feed)

(***************************************************************************)
(* The package module (__init__.py), which holds its own Item, Feed,       *)
(* update_feeds, DbFeed, Db and App.                                       *)
(***************************************************************************)
\* Item.date when __post_init__ has not assigned it: reading it raises
\* AttributeError.
Unset == <<"unset">>

\* Item(...) after __post_init__: date is assigned only for a _raw_date.
PkgItem(raw) ==
    [title |-> raw.title, content |-> raw.content, link |-> raw.link,
     author |-> raw.author, comments |-> raw.comments,
     date |-> IF raw.raw_date = NoDate THEN Unset ELSE raw.raw_date,
     guid |-> ItemGuid(raw)]

\* Feed._from_rss: the entries up to the i-th that have a pubDate; iso_date
\* is assigned only for those and keeps its value otherwise.
Dated(entries, i) == {j \in 1..i : entries[j].pubDate \notin {NoDate, BadDate}}

\* Feed._from_rss: the arguments of Item(...) for the i-th <item>, when
\* iso_date is bound.
PkgRssItemArgs(entries, i) ==
    LET e == entries[i]
        j == CHOOSE j \in Dated(entries, i) :
                \A k \in Dated(entries, i) : k <= j
    IN [title |-> e.title, link |-> e.link, content |-> e.content,
        author |-> None, comments |-> e.comments,
        raw_date |-> astimezone_utc(entries[j].pubDate),
        raw_guid |-> e.id]

PkgAtomItemArgs(e) ==
    [title |-> e.title, link |-> e.link, content |-> e.content,
     author |-> e.author, comments |-> e.comments,
     raw_date |-> IF e.published # NoDate THEN e.published ELSE e.updated,
     raw_guid |-> e.id]

\* Feed._from_rss: the items are built in order; the first that fails
\* decides the exception: UnboundLocalError when iso_date was never
\* assigned, ValueError when the item has no guid.
PkgFromRss(doc) ==
    LET n == Len(doc.entries)
        BadText(i) == doc.entries[i].pubDate = BadDate
        Unbound(i) == Dated(doc.entries, i) = {}
        Bad(i) == \/ BadText(i)
                  \/ Unbound(i)
                  \/ ~HasGuid(PkgRssItemArgs(doc.entries, i))
    IN IF \E i \in 1..n : Bad(i)
       THEN LET i == CHOOSE i \in 1..n : Bad(i) /\ \A k \in 1..(i - 1) : ~Bad(k)
            IN ParseError(IF BadText(i) THEN "ValueError"
                          ELSE IF Unbound(i) THEN "UnboundLocalError"
                          ELSE "ValueError")
       ELSE [err |-> None, title |-> doc.title,
             description |-> doc.description,
             items |-> [i \in 1..n |-> PkgItem(PkgRssItemArgs(doc.entries, i))]]

PkgFromAtom(doc) ==
    LET args == [i \in 1..Len(doc.entries) |-> PkgAtomItemArgs(doc.entries[i])]
    IN IF \E i \in 1..Len(args) : ItemErr(args[i]) # None
       THEN ParseError("ValueError")
       ELSE [err |-> None, title |-> doc.title,
             description |-> doc.description,
             items |-> [i \in 1..Len(args) |-> PkgItem(args[i])]]

\* Feed.from_xml on a document
Pkg_from_xml(doc) ==
    IF ~doc.wellformed THEN ParseError("ParseError")
    ELSE IF doc.root = "rss"
    THEN IF doc.channels # 1 THEN ParseError("AssertionError")
         ELSE PkgFromRss(doc)
    ELSE IF EndsWith(doc.root, "feed") THEN PkgFromAtom(doc)
    ELSE ParseError("ValueError")

\* Feed.from_xml on the body named text
pkg_from_xml(text) == Pkg_from_xml(Xml[text])

\* update_feeds: the request headers
pkg_headers(feed) ==
    ("user-agent" :> UserAgent)
    @@ (IF Truthy(feed.etag) THEN ("etag" :> feed.etag) ELSE << >>)
    @@ (IF Truthy(feed.last_modified)
        THEN ("last-modified" :> feed.last_modified) ELSE << >>)

PkgResponses ==
    Responses \cup {Response(None, 200, "e1", "m1", "undated")}

PkgNItems(resp) ==
    IF resp.exc = None /\ resp.status_code = 200
    THEN Len(pkg_from_xml(resp.text).items) ELSE 0

\* One iteration of the loop of update_feeds, after the request is sent;
\* a 304 is a status other than 200.
pkg_fetch_one(feed, resp, eps) ==
    IF resp.exc = "TimeoutException" THEN Skip(feed)
    ELSE IF resp.exc # None THEN Raise(resp.exc, feed)
    ELSE IF resp.status_code = 200
    THEN LET body == pkg_from_xml(resp.text) IN
         IF body.err # None THEN Raise(body.err, feed)
         ELSE Accept(feed, resp, body, eps)
    ELSE Skip(feed)

\* Db.insert_items: the parameter list is built before the statement runs,
\* and date_str raises AttributeError for an item without a date.
Pkg_insert_items(st, batch) ==
    IF \E i \in 1..Len(batch) : batch[i].item.date = Unset
    THEN [st EXCEPT !.err = "AttributeError"]
    ELSE with_conn(st, executemany("INSERT INTO items (package)", st,
                        [i \in 1..Len(batch) |-> PkgItemParams(batch[i])]))

(***************************************************************************)
(* The scoring model (scoring.py).  A Model is the record of its four      *)
(* counters and of its tokens, a function from the texts seen to Token     *)
(* records.  A logarithm is an integer in units of 1/1000; a score in      *)
(* (0, 1) is represented by its log-odds in these units, and the doubles   *)
(* 1.0 and 0.0 by SigmoidOne and SigmoidZero, the log-odds from which      *)
(* sigmoid returns them.                                                    *)
(***************************************************************************)
Token(up, down) == [up |-> up, down |-> down]

Vote == {"UP", "DOWN"}

\* What tokenize yields for the documents of the model: tags and comments
\* are stripped, the text is lowercased, tokens of digits only are dropped.
Tokenized ==
    [text \in {"", "rust", "Rust go", "go <b>Rust</b> 2024",
                "go <!-- rust --> go"}
        |-> CASE text = "" -> << >>
              [] text = "rust" -> <<"rust">>
              [] text = "Rust go" -> <<"rust", "go">>
              [] text = "go <b>Rust</b> 2024" -> <<"go", "rust">>
              [] text = "go <!-- rust --> go" -> <<"go", "go">>]

tokenize(text) == Tokenized[text]

\* Counter(tokens)
Counter(tokens) ==
    [t \in {tokens[i] : i \in DOMAIN tokens} |->
        Cardinality({i \in DOMAIN tokens : tokens[i] = t})]

\* sum(f.values())
RECURSIVE SumValues(_)
SumValues(f) ==
    IF DOMAIN f = {} THEN 0
    ELSE LET t == CHOOSE t \in DOMAIN f : TRUE
         IN f[t] + SumValues([u \in DOMAIN f \ {t} |-> f[u]])

\* defaultdict(Token): self.tokens[text]
TokenOf(tokens, text) ==
    IF text \in DOMAIN tokens THEN tokens[text] ELSE Token(0, 0)

\* Model.from_db: SELECT ... FROM model WHERE id = 1; SELECT text, up, down
\* FROM model_tokens
Model_from_db(rows, token_rows) ==
    LET r == CHOOSE r \in rows : r.id = 1
    IN [up_docs |-> r.up_docs, down_docs |-> r.down_docs,
        up_total_tokens |-> r.up_total_tokens,
        down_total_tokens |-> r.down_total_tokens,
        tokens |-> [t \in {q.text : q \in token_rows} |->
                        LET q == CHOOSE q \in token_rows : q.text = t
                        IN Token(q.up, q.down)]]

\* a vote counted on both sides
Voted_both(token, vote, count) ==
    [token EXCEPT !.up = @ + count, !.down = @ + count]

\* token.up += count or token.down += count
Voted(token, vote, count) ==
    IF vote = "UP" THEN [token EXCEPT !.up = @ + count]
    ELSE [token EXCEPT !.down = @ + count]

\* add_item with `updated` holding the totals of the tokens of the document
Model_add_item_totals(m, document, vote) ==
    LET counts == Counter(tokenize(document))
        new_tokens == SumValues(counts)
        tokens == [t \in DOMAIN m.tokens \cup DOMAIN counts |->
                    IF t \in DOMAIN counts
                    THEN Voted(TokenOf(m.tokens, t), vote, counts[t])
                    ELSE m.tokens[t]]
    IN [model |->
            IF vote = "UP"
            THEN [m EXCEPT !.tokens = tokens, !.up_docs = @ + 1,
                           !.up_total_tokens = @ + new_tokens]
            ELSE [m EXCEPT !.tokens = tokens, !.down_docs = @ + 1,
                           !.down_total_tokens = @ + new_tokens],
        updated |-> [t \in DOMAIN counts |-> tokens[t]]]

\* Model.add_item, the part in memory: the instance afterwards and `updated`,
\* the delta of this item.
Model_add_item(m, document, vote) ==
    LET counts == Counter(tokenize(document))
        new_tokens == SumValues(counts)
        tokens == [t \in DOMAIN m.tokens \cup DOMAIN counts |->
                    IF t \in DOMAIN counts
                    THEN Voted(TokenOf(m.tokens, t), vote, counts[t])
                    ELSE m.tokens[t]]
    IN [model |->
            IF vote = "UP"
            THEN [m EXCEPT !.tokens = tokens, !.up_docs = @ + 1,
                           !.up_total_tokens = @ + new_tokens]
            ELSE [m EXCEPT !.tokens = tokens, !.down_docs = @ + 1,
                           !.down_total_tokens = @ + new_tokens],
        updated |-> [t \in DOMAIN counts |->
                        Voted(Token(0, 0), vote, counts[t])]]

\* UPDATE model SET up_docs = ?, down_docs = ?, up_total_tokens = ?,
\* down_total_tokens = ? WHERE id = 1
update_model(rows, m) ==
    {IF r.id = 1
     THEN [r EXCEPT !.up_docs = m.up_docs, !.down_docs = m.down_docs,
                    !.up_total_tokens = m.up_total_tokens,
                    !.down_total_tokens = m.down_total_tokens]
     ELSE r : r \in rows}

\* ... ON CONFLICT(text) DO UPDATE SET up = excluded.up, down = excluded.down
upsert_tokens_replace(token_rows, updated) ==
    {q \in token_rows : q.text \notin DOMAIN updated}
    \cup {[text |-> t, up |-> updated[t].up, down |-> updated[t].down] :
            t \in DOMAIN updated}

\* executemany(INSERT INTO model_tokens (text, up, down) VALUES (?, ?, ?)
\* ON CONFLICT(text) DO UPDATE SET up = up + excluded.up, down = down +
\* excluded.down) over updated.items(), whose texts are distinct.
upsert_tokens(token_rows, updated) ==
    {IF q.text \in DOMAIN updated
     THEN [q EXCEPT !.up = @ + updated[q.text].up,
                    !.down = @ + updated[q.text].down]
     ELSE q : q \in token_rows}
    \cup {[text |-> t, up |-> updated[t].up, down |-> updated[t].down] :
            t \in {u \in DOMAIN updated : \A q \in token_rows : q.text # u}}

\* round(1000 * math.log(n)) for the integers of the model
LnTable ==
    <<0, 693, 1099, 1386, 1609, 1792, 1946, 2079, 2197, 2303, 2398, 2485,
      2565, 2639, 2708, 2773>>

\* math.log(a / b)
log(a, b) == LnTable[a] - LnTable[b]

\* sigmoid(z) is the double 1.0 from z = 36.7368... on: 1 + exp(-z) is 1.0
SigmoidOne == 36737
\* sigmoid(z) is the double 0.0 up to z = -745.1332...: exp(z) is 0.0
SigmoidZero == -745134

\* sigmoid
sigmoid(z) ==
    IF z >= SigmoidOne THEN SigmoidOne
    ELSE IF z <= SigmoidZero THEN SigmoidZero
    ELSE z

\* Model.score
Model_score(m, tokens, alpha, beta) ==
    LET V == IF Cardinality(DOMAIN m.tokens) > 1
             THEN Cardinality(DOMAIN m.tokens) ELSE 1
        prior == log(m.up_docs + beta, m.down_docs + beta)
        up_denom == m.up_total_tokens + alpha * V
        down_denom == m.down_total_tokens + alpha * V
        counts == Counter(tokens)
        term == [text \in DOMAIN counts |->
                    LET token == IF text \in DOMAIN m.tokens
                                 THEN m.tokens[text] ELSE Token(0, 0)
                    IN counts[text] * (log(token.up + alpha, up_denom)
                                       - log(token.down + alpha, down_denom))]
    IN sigmoid(prior + SumValues(term))

(***************************************************************************)
(* State.                                                                  *)
(***************************************************************************)
VARIABLES
    feeds,      \* the feeds table
    feeds_seq,  \* its AUTOINCREMENT counter
    items,      \* the items table
    pc,         \* where App.update stands: "idle" when no run is under way
    run_feeds,  \* App.update: `feeds`, the DbFeed list update_feeds mutates
    run_items,  \* update_feeds: `items`, the tuples collected so far
    requests,   \* the requests sent in this run, in order
    responses,  \* what httpx.get gave for each
    call,       \* the operation last started
    arg,        \* its argument
    exc,        \* the exception that escaped it, None when none
    pre,        \* history: the tables when that operation started
    upserted,   \* history: the last parameters insert_items stored per key
    nruns,      \* update runs started
    ncalls,     \* Db calls made from outside a run
    model,      \* the model table
    model_tokens, \* the model_tokens table
    loaded,     \* the Model instances in memory, << >> where there is none
    applied     \* history: per instance, the (document, vote) pairs
                \* add_item was given

\* the variables of the scoring model
scoring == <<model, model_tokens, loaded, applied>>

vars == <<feeds, feeds_seq, items, pc, run_feeds, run_items, requests,
          responses, call, arg, exc, pre, upserted, nruns, ncalls, model,
          model_tokens, loaded, applied>>

\* Url (config.py)
Url(link, color) == [link |-> link, color |-> color]

Tables == [feeds |-> feeds, seq |-> feeds_seq, items |-> items]

\* the content of the store file: the four tables
File ==
    [feeds |-> feeds, seq |-> feeds_seq, items |-> items, model |-> model,
     model_tokens |-> model_tokens]

\* The Model instances of the model.
Instances == {1, 2}

Init ==
    /\ feeds = {}
    /\ feeds_seq = 0
    /\ items = {}
    /\ pc = "idle"
    /\ run_feeds = << >>
    /\ run_items = << >>
    /\ requests = << >>
    /\ responses = << >>
    /\ call = "none"
    /\ arg = << >>
    /\ exc = None
    /\ pre = [feeds |-> {}, seq |-> 0, items |-> {}]
    /\ upserted = {}
    /\ nruns = 0
    /\ ncalls = 0
    /\ model = {}
    /\ model_tokens = {}
    /\ loaded = [i \in Instances |-> << >>]
    /\ applied = [i \in Instances |-> << >>]

Tx(rows, seq) == [rows |-> rows, seq |-> seq, err |-> None]

\* The store file exists once an operation has opened it: every open
\* leaves the row of the model table behind.
StoreExists == model # {}

\* VALUES (1, 0, 0, 0, 0)
ModelRow0 ==
    [id |-> 1, up_docs |-> 0, down_docs |-> 0, up_total_tokens |-> 0,
     down_total_tokens |-> 0]

\* INSERT OR REPLACE INTO model (...) VALUES (1, 0, 0, 0, 0)
insert_model_row_replace(rows) ==
    {r \in rows : r.id # ModelRow0.id} \cup {ModelRow0}

\* INSERT OR IGNORE INTO model (...) VALUES (1, 0, 0, 0, 0)
insert_model_row(rows) ==
    IF \E r \in rows : r.id = ModelRow0.id THEN rows ELSE rows \cup {ModelRow0}

\* _setup_connection with DROP TABLE ahead of each CREATE TABLE
Db_setup_connection_recreate(exists, t) ==
    [feeds |-> {}, seq |-> 0, items |-> {}, model |-> insert_model_row({}),
     model_tokens |-> {}]

\* Db.__enter__ / _setup_connection: CREATE TABLE IF NOT EXISTS feeds, items,
\* model, model_tokens and the row of model; t is the content of the tables
\* of an existing file.
Db_setup_connection(exists, t) ==
    LET old == IF exists THEN t
               ELSE [feeds |-> {}, seq |-> 0, items |-> {}, model |-> {},
                     model_tokens |-> {}]
    IN [old EXCEPT !.model = insert_model_row(old.model)]

\* The history of insert_items after a call that committed: each key of the
\* batch with the parameters of its last occurrence, the others as before.
Upsert(old, batch, err) ==
    IF err # None THEN old
    ELSE LET ps == [i \in 1..Len(batch) |-> ItemParams(batch[i])]
             SameKey(p, q) == p.feed_id = q.feed_id /\ p.guid = q.guid
         IN {q \in old : \A i \in 1..Len(ps) : ~SameKey(ps[i], q)}
            \cup {ps[i] : i \in {j \in 1..Len(ps) :
                                  \A l \in (j + 1)..Len(ps) :
                                      ~SameKey(ps[l], ps[j])}}

(***************************************************************************)
(* App.update, statement by statement.                                     *)
(***************************************************************************)
\* The subscription lists of the model, as load_urls returns them.
UrlFiles ==
    {<<Url("a", None)>>,
     <<Url("b", "#ff0000"), Url("a", "#ff0000")>>,
     <<Url("b", None)>>}

\* with Db(...) as db: urls = self.load_urls(); db.insert_urls(urls);
\* feeds = db.get_feeds(...)
StartUpdate(urls) ==
    /\ pc = "idle"
    /\ nruns < MaxRuns
    /\ LET db == Db_setup_connection(StoreExists, File)
           st == Db_insert_urls(Tx(db.feeds, db.seq), urls)
           got == Db_get_feeds(st.rows, [i \in 1..Len(urls) |-> urls[i].link])
       IN /\ feeds' = st.rows
          /\ feeds_seq' = st.seq
          /\ items' = db.items
          /\ model' = db.model
          /\ model_tokens' = db.model_tokens
          /\ exc' = st.err
          /\ run_feeds' = IF st.err = None THEN got ELSE << >>
          /\ pc' = IF st.err # None THEN "idle"
                   ELSE IF Len(got) = 0 THEN "db.update_feeds"
                   ELSE "update_feeds"
    /\ run_items' = << >>
    /\ requests' = << >>
    /\ responses' = << >>
    /\ pre' = Tables
    /\ call' = "update"
    /\ arg' = urls
    /\ nruns' = nruns + 1
    /\ UNCHANGED <<upserted, ncalls, loaded, applied>>

\* items = update_feeds(feeds): one iteration of its loop
Fetch(resp, eps) ==
    /\ pc = "update_feeds"
    /\ LET i == Len(responses) + 1
           feed == run_feeds[i]
           out == fetch_one(feed, resp, eps)
       IN /\ requests' = Append(requests,
                                [url |-> feed.url, headers |-> headers(feed)])
          /\ responses' = Append(responses, resp)
          /\ exc' = out.exc
          /\ IF out.exc # None
             THEN /\ pc' = "idle"
                  /\ run_feeds' = << >>
                  /\ run_items' = << >>
             ELSE /\ pc' = IF i = Len(run_feeds) THEN "db.update_feeds"
                           ELSE "update_feeds"
                  /\ run_feeds' = [run_feeds EXCEPT ![i] = out.feed]
                  /\ run_items' = run_items \o out.items
    /\ UNCHANGED <<feeds, feeds_seq, items, call, arg, pre, upserted, nruns,
                   ncalls, scoring>>

\* db.update_feeds(feeds)
WriteFeeds ==
    /\ pc = "db.update_feeds"
    /\ LET st == Db_update_feeds(Tx(feeds, feeds_seq), run_feeds)
       IN /\ feeds' = st.rows
          /\ exc' = st.err
          /\ pc' = IF st.err = None THEN "db.insert_items" ELSE "idle"
          /\ run_feeds' = IF st.err = None THEN run_feeds ELSE << >>
          /\ run_items' = IF st.err = None THEN run_items ELSE << >>
    /\ UNCHANGED <<feeds_seq, items, requests, responses, call, arg, pre,
                   upserted, nruns, ncalls, scoring>>

\* db.insert_items(items)
WriteItems ==
    /\ pc = "db.insert_items"
    /\ LET st == Db_insert_items(Tx(items, 0), run_items)
       IN /\ items' = st.rows
          /\ exc' = st.err
          /\ upserted' = Upsert(upserted, run_items, st.err)
    /\ pc' = "idle"
    /\ run_feeds' = << >>
    /\ run_items' = << >>
    /\ UNCHANGED <<feeds, feeds_seq, requests, responses, call, arg, pre,
                   nruns, ncalls, scoring>>

\* The loop of update_feeds of the package module: one subscription.
PkgFetch(resp, eps) ==
    /\ pc = "update_feeds"
    /\ LET i == Len(responses) + 1
           feed == run_feeds[i]
           out == pkg_fetch_one(feed, resp, eps)
       IN /\ requests' = Append(requests,
                                [url |-> feed.url, headers |-> pkg_headers(feed)])
          /\ responses' = Append(responses, resp)
          /\ exc' = out.exc
          /\ IF out.exc # None
             THEN /\ pc' = "idle"
                  /\ run_feeds' = << >>
                  /\ run_items' = << >>
             ELSE /\ pc' = IF i = Len(run_feeds) THEN "db.update_feeds"
                           ELSE "update_feeds"
                  /\ run_feeds' = [run_feeds EXCEPT ![i] = out.feed]
                  /\ run_items' = run_items \o out.items
    /\ UNCHANGED <<feeds, feeds_seq, items, call, arg, pre, upserted, nruns,
                   ncalls, scoring>>

\* db.insert_items(items) of the package module
PkgWriteItems ==
    /\ pc = "db.insert_items"
    /\ LET st == Pkg_insert_items(Tx(items, 0), run_items)
       IN /\ items' = st.rows
          /\ exc' = st.err
    /\ pc' = "idle"
    /\ run_feeds' = << >>
    /\ run_items' = << >>
    /\ UNCHANGED <<feeds, feeds_seq, requests, responses, call, arg, pre,
                   upserted, nruns, ncalls, scoring>>

(***************************************************************************)
(* The Db methods called from outside a run (the web application, the      *)
(* tests).                                                                 *)
(***************************************************************************)
CallFrame(name, a, max) ==
    /\ pc = "idle"
    /\ ncalls < max
    /\ call' = name
    /\ arg' = a
    /\ ncalls' = ncalls + 1
    /\ pre' = Tables
    /\ requests' = << >>
    /\ responses' = << >>
    /\ model' = Db_setup_connection(StoreExists, File).model
    /\ UNCHANGED <<pc, run_feeds, run_items, nruns, model_tokens, loaded,
                   applied>>

\* The lists of the model: a first declaration, a change of color, two
\* urls, one url twice, a Url whose link is None after a good one.
UrlBatches ==
    {<<Url("a", None)>>,
     <<Url("a", "#ff0000")>>,
     <<Url("b", "#00ff00"), Url("a", "#ff0000")>>,
     <<Url("a", "#ff0000"), Url("a", None)>>,
     <<Url("b", None), Url(None, None)>>}

InsertUrls(urls) ==
    /\ CallFrame("insert_urls", urls, MaxCalls)
    /\ LET st == Db_insert_urls(Tx(feeds, feeds_seq), urls)
       IN /\ feeds' = st.rows
          /\ feeds_seq' = st.seq
          /\ exc' = st.err
    /\ UNCHANGED <<items, upserted>>

\* The DbFeed lists of the model: a stored feed with new metadata, and one
\* followed by a feed whose title sqlite3 cannot bind.
FeedBatches ==
    {<<[DbFeed(r) EXCEPT !.title = t, !.etag = "e9"]>>
        : r \in feeds, t \in {"T9", None}}
    \cup {<<[DbFeed(r) EXCEPT !.title = "T9", !.description = "D9"],
            [DbFeed(q) EXCEPT !.title = Unbindable]>> : r \in feeds, q \in feeds}

UpdateFeeds(fs) ==
    /\ CallFrame("update_feeds", fs, MaxCalls)
    /\ LET st == Db_update_feeds(Tx(feeds, feeds_seq), fs)
       IN /\ feeds' = st.rows
          /\ exc' = st.err
    /\ UNCHANGED <<feeds_seq, items, upserted>>

I1 == WithThumbnail(Item(RssItemArgs(E1)), E1.thumbnail)
I1b == WithThumbnail(Item(AtomItemArgs(E1b)), E1b.thumbnail)
I2 == WithThumbnail(Item(AtomItemArgs(E2)), E2.thumbnail)
\* an item whose guid was set to None after construction
NoGuidItem == [I1 EXCEPT !.guid = None]

\* An RSS item with a guid and no link, no author, dated on day 1.
I3 ==
    WithThumbnail(Item(RssItemArgs(Entry("g3", None, "c3", "C", None, None,
                                         <<2000, 0>>, NoDate, NoDate, None))),
                  None)
\* no date
I4 ==
    WithThumbnail(Item(RssItemArgs(Entry("g4", "l4", None, "D", None, None,
                                         NoDate, NoDate, NoDate, None))),
                  None)
\* on the day of E1 and later in it
I5 ==
    WithThumbnail(Item(RssItemArgs(Entry("g5", "l5", "c5", "E", None, "cm",
                                         <<720, 0>>, NoDate, NoDate, None))),
                  None)
\* on day 1 in UTC, on day 0 in its own time zone
I6 ==
    WithThumbnail(Item(RssItemArgs(Entry("g6", "l6", "c6", "F", None, None,
                                         <<1500, -120>>, NoDate, NoDate, None))),
                  None)

Tuple(feed_id, score, item) ==
    [feed_id |-> feed_id, score |-> score, item |-> item]

\* The batches of the model: an item, its edited version, both in one batch
\* in either order, two keys, the same guid under two feeds, an item without
\* guid after a good one.
ItemBatches ==
    {<<Tuple(1, 9000, I1)>>,
     <<Tuple(1, 10000, I1b)>>,
     <<Tuple(1, 9000, I1), Tuple(1, 10000, I1b)>>,
     <<Tuple(1, 10000, I1b), Tuple(1, 9000, I1)>>,
     <<Tuple(1, 9000, I2), Tuple(2, 9000, I1)>>,
     <<Tuple(1, 10000, I2), Tuple(1, 9000, NoGuidItem)>>,
     <<Tuple(1, 9000, I3)>>,
     <<Tuple(1, 10000, I4), Tuple(1, 5000, I5), Tuple(1, 9000, I1),
       Tuple(1, 1000, I6)>>}

InsertItems(batch) ==
    /\ CallFrame("insert_items", batch, MaxCalls)
    /\ LET st == Db_insert_items(Tx(items, 0), batch)
       IN /\ items' = st.rows
          /\ exc' = st.err
          /\ upserted' = Upsert(upserted, batch, st.err)
    /\ UNCHANGED <<feeds, feeds_seq>>

SetRead(item_id, max) ==
    /\ CallFrame("set_read", item_id, max)
    /\ items' = Db_set_read(items, item_id)
    /\ exc' = None
    /\ UNCHANGED <<feeds, feeds_seq, upserted>>

\* The value of 'now' in the queries: the start of day 2.
Clock == {2 * MinutesPerDay}

\* A query: the tables are read, the result is kept in run_items.
QueryFrame(name, a, posts) ==
    /\ pc = "idle"
    /\ ncalls < MaxCalls
    /\ call' = name
    /\ arg' = a
    /\ ncalls' = ncalls + 1
    /\ pre' = Tables
    /\ run_items' = posts
    /\ exc' = None
    /\ requests' = << >>
    /\ responses' = << >>
    /\ model' = Db_setup_connection(StoreExists, File).model
    /\ UNCHANGED <<feeds, feeds_seq, items, upserted, pc, run_feeds, nruns,
                   model_tokens, loaded, applied>>

\* posts = db.get_posts(days, read)
GetPosts(days, read, now) ==
    \E posts \in Db_get_posts(feeds, items, days, read, now) :
        QueryFrame("get_posts", Filter(TRUE, read, days, now, << >>), posts)

\* posts = db.get_posts_by_id(feed_id)
GetPostsById(feed_id) ==
    \E posts \in Db_get_posts_by_id(feeds, items, feed_id) :
        QueryFrame("get_posts_by_id",
                   Filter(FALSE, << >>, << >>, 0, Some(feed_id)), posts)

\* the ids of the stored items, and one that is not stored
ItemIds == {r.id : r \in items} \cup {MaxId(items) + 1}

(***************************************************************************)
(* The scoring model in use: the store opened, Model instances loaded,     *)
(* trained and asked for scores.  run_items is the score returned.         *)
(***************************************************************************)
MaxModelCalls == 4
MaxStoreCalls == 5

ModelFrame(name, a, max) ==
    /\ pc = "idle"
    /\ ncalls < max
    /\ call' = name
    /\ arg' = a
    /\ ncalls' = ncalls + 1
    /\ pre' = Tables
    /\ exc' = None
    /\ requests' = << >>
    /\ responses' = << >>
    /\ UNCHANGED <<feeds_seq, upserted, pc, run_feeds, nruns>>

\* with Db(path): pass
Open(max) ==
    /\ ModelFrame("open", << >>, max)
    /\ LET db == Db_setup_connection(StoreExists, File)
       IN /\ feeds' = db.feeds
          /\ items' = db.items
          /\ model' = db.model
          /\ model_tokens' = db.model_tokens
    /\ run_items' = << >>
    /\ UNCHANGED <<loaded, applied>>

\* instance i = Model.from_db(path)
Load(i, max) ==
    /\ ModelFrame("from_db", <<i>>, max)
    /\ LET db == Db_setup_connection(StoreExists, File)
           m == Model_from_db(db.model, db.model_tokens)
       IN /\ feeds' = db.feeds
          /\ items' = db.items
          /\ model' = db.model
          /\ model_tokens' = db.model_tokens
          /\ loaded' = [loaded EXCEPT ![i] = <<m>>]
    /\ run_items' = << >>
    /\ UNCHANGED applied

\* The documents add_item is given.
Documents == DOMAIN Tokenized

\* instance i .add_item(document, vote): the instance is changed, then the
\* store is opened and both statements run in one transaction.
AddItem(i, document, vote, max) ==
    /\ loaded[i] # << >>
    /\ ModelFrame("add_item", <<i, document, vote>>, max)
    /\ LET out == Model_add_item(loaded[i][1], document, vote)
           db == Db_setup_connection(StoreExists, File)
       IN /\ loaded' = [loaded EXCEPT ![i] = <<out.model>>]
          /\ feeds' = db.feeds
          /\ items' = db.items
          /\ model' = update_model(db.model, out.model)
          /\ model_tokens' = upsert_tokens(db.model_tokens, out.updated)
    /\ applied' = [applied EXCEPT ![i] =
                        Append(@, [document |-> document, vote |-> vote])]
    /\ run_items' = << >>

\* The token sequences score is given: none, a token never seen, one and
\* two tokens of the documents, and long runs of one token.
TokenSeqs ==
    {<< >>, <<"zz">>, <<"rust">>, <<"rust", "go", "go", "go">>,
     [k \in 1..60 |-> "rust"], [k \in 1..1100 |-> "go"]}

\* instance i .score(tokens, alpha=alpha, beta=beta)
ScoreOf(i, tokens, alpha, beta) ==
    /\ loaded[i] # << >>
    /\ ModelFrame("score", <<i, Counter(tokens), alpha, beta>>, MaxModelCalls)
    /\ run_items' = <<Model_score(loaded[i][1], tokens, alpha, beta)>>
    /\ UNCHANGED <<feeds, items, scoring>>

\* One Model instance at a time: loaded, trained, loaded again.
NextModel ==
    \/ Open(MaxModelCalls)
    \/ Load(1, MaxModelCalls)
    \/ \E document \in Documents : \E vote \in Vote :
            AddItem(1, document, vote, MaxModelCalls)
    \/ \E tokens \in TokenSeqs : ScoreOf(1, tokens, 1, 1)

SpecModel == Init /\ [][NextModel]_vars

\* Two Model instances over one store.
NextShared ==
    \/ \E i \in Instances : Load(i, MaxModelCalls)
    \/ \E i \in Instances : \E document \in Documents : \E vote \in Vote :
            AddItem(i, document, vote, MaxModelCalls)

SpecShared == Init /\ [][NextShared]_vars

\* The store with subscriptions, items and a trained model in it, opened
\* again and again.
NextStore ==
    \/ Open(MaxStoreCalls)
    \/ Load(1, MaxStoreCalls)
    \/ \E vote \in Vote : AddItem(1, "Rust go", vote, MaxStoreCalls)
    \/ \E urls \in UrlBatches : InsertUrls(urls)
    \/ \E batch \in ItemBatches : InsertItems(batch)

SpecStore == Init /\ [][NextStore]_vars

(***************************************************************************)
(* The parsers, the Item constructor and initial_score, called on their    *)
(* own.  arg is the input, exc the exception raised, run_feeds the Feed    *)
(* returned (title and description) and run_items its items, or the scores *)
(* returned.                                                               *)
(***************************************************************************)
\* The text of an element: absent (or empty), or present.
Opt(v) == {None, v}

\* The entries of the model: every combination of a present or absent id,
\* link, content and of the other children, with no date, a date, or a date
\* text that does not parse.
ParseEntries ==
    {Entry(id, link, content, t, IF t = None THEN None ELSE "au",
           IF t = None THEN None ELSE "cm", d, NoDate, d, None)
        : id \in Opt("g1"), link \in Opt("l1"), content \in Opt("c1"),
          t \in Opt("A"), d \in {NoDate, <<600, 120>>, BadDate}}

\* The entries that come first in the documents of two entries: E1 has
\* every child and a pubDate, E2 has a link and no date.
FirstEntries == {E1, E2}

EntryLists ==
    {<< >>} \cup {<<e>> : e \in ParseEntries}
    \cup {<<f, e>> : f \in FirstEntries, e \in ParseEntries}

\* The root tags with the number of <channel> elements below them.
Roots ==
    {<<"rss", 0>>, <<"rss", 1>>, <<"rss", 2>>, <<"feed", 0>>,
     <<"{http://www.w3.org/2005/Atom}feed", 0>>, <<"html", 0>>, <<"RSS", 1>>}

ParseDocs ==
    {Doc(TRUE, r[1], r[2], "T", "D", es) : r \in Roots, es \in EntryLists}
    \cup {Doc(FALSE, None, 0, None, None, << >>)}

\* The arguments of Item(...): "" as well as None for guid, link, content.
RawItems ==
    [title : Opt("A"), link : {None, "", "l1"}, content : {None, "", "c1", "c2"},
     author : {None}, comments : {None}, raw_date : {NoDate, <<600, 0>>},
     raw_guid : {None, "", "g1"}]

ParseFrame(name, a) ==
    /\ pc = "idle"
    /\ call = "none"
    /\ call' = name
    /\ arg' = a
    /\ UNCHANGED <<feeds, feeds_seq, items, pc, requests, responses, pre,
                   upserted, nruns, ncalls, scoring>>

Returned(out) ==
    /\ exc' = out.err
    /\ run_feeds' = IF out.err # None THEN << >>
                    ELSE <<[title |-> out.title,
                            description |-> out.description]>>
    /\ run_items' = out.items

\* Item(...)
Construct(raw) ==
    /\ ParseFrame("Item", raw)
    /\ exc' = ItemErr(raw)
    /\ run_feeds' = << >>
    /\ run_items' = IF ItemErr(raw) # None THEN << >> ELSE <<Item(raw)>>

\* Feed.from_xml (models.py)
Parse(doc) ==
    /\ ParseFrame("from_xml", doc)
    /\ Returned(Feed_from_xml(doc))

\* Feed.from_xml (__init__.py)
PkgParse(doc) ==
    /\ ParseFrame("pkg.from_xml", doc)
    /\ Returned(Pkg_from_xml(doc))

\* The counts update_feeds passes to initial_score: the first items of a
\* feed, and the 746th of one that long.
ScoreCounts == {0, 1, 2, 745}

\* update_feeds, the loop over body.items: the scores of the items at
\* positions count and count + 1 of one feed's body.
Score(count, eps) ==
    /\ ParseFrame("initial_score", <<count, eps>>)
    /\ exc' = None
    /\ run_feeds' = << >>
    /\ run_items' = [i \in 1..2 |-> initial_score(count + i - 1, eps[i])]

\* str.splitlines, of a text whose line ends are "\n"
RECURSIVE splitlines(_)
splitlines(text) ==
    IF text = "" THEN << >>
    ELSE LET ends == {k \in 1..Len(text) : SubSeq(text, k, k) = "\n"}
         IN IF ends = {} THEN <<text>>
            ELSE LET k == CHOOSE e \in ends : \A f \in ends : e <= f
                 IN <<SubSeq(text, 1, k - 1)>>
                    \o splitlines(SubSeq(text, k + 1, Len(text)))

\* str.startswith
startswith(s, prefix) ==
    Len(s) >= Len(prefix) /\ SubSeq(s, 1, Len(prefix)) = prefix

\* str.split(): the runs of characters that are not whitespace
RECURSIVE split(_)
split(s) ==
    LET IsSpace(c) == c \in {" ", "\t"}
        inks == {k \in 1..Len(s) : ~IsSpace(SubSeq(s, k, k))}
    IN IF inks = {} THEN << >>
       ELSE LET a == CHOOSE k \in inks : \A l \in inks : k <= l
                gaps == {k \in a..Len(s) : IsSpace(SubSeq(s, k, k))}
                b == IF gaps = {} THEN Len(s) + 1
                     ELSE CHOOSE k \in gaps : \A l \in gaps : k <= l
            IN <<SubSeq(s, a, b - 1)>> \o split(SubSeq(s, b, Len(s)))

\* load_urls that passes over a line it cannot parse
RECURSIVE load_lines_lenient(_)
load_lines_lenient(lines) ==
    IF lines = << >> THEN [err |-> None, urls |-> << >>]
    ELSE LET line == Head(lines)
             rest == load_lines_lenient(Tail(lines))
             words == split(line)
         IN IF startswith(line, "#") \/ Len(words) = 0 \/ Len(words) > 2
            THEN rest
            ELSE [rest EXCEPT !.urls =
                    <<Url(words[1], IF Len(words) = 2 THEN words[2] ELSE None)>>
                    \o @]

\* load_urls, the loop over the lines: `continue` for a line that starts
\* with "#" and for one that is empty once stripped, a Url for one or two
\* words, ValueError for more.
RECURSIVE load_lines(_)
load_lines(lines) ==
    IF lines = << >> THEN [err |-> None, urls |-> << >>]
    ELSE LET line == Head(lines)
             rest == load_lines(Tail(lines))
             words == split(line)
         IN IF startswith(line, "#") \/ Len(words) = 0 THEN rest
            ELSE IF Len(words) > 2 THEN [err |-> "ValueError", urls |-> << >>]
            ELSE IF rest.err # None THEN rest
            ELSE [rest EXCEPT !.urls =
                    <<Url(words[1], IF Len(words) = 2 THEN words[2] ELSE None)>>
                    \o @]

\* load_urls(path), text being what the file holds
load_urls(text) == load_lines(splitlines(text))

\* The lines of the model, each as the whitespace it starts with and its
\* words: one and two words, comments, blank lines, a "#" after leading
\* whitespace, three words.
Line(lead, words) == [lead |-> lead, words |-> words]

LinePool ==
    {Line("", <<"https://a.example/feed">>),
     Line("", <<"https://b.example/feed", "#ff0000">>),
     Line("", <<"#", "note">>),
     Line("", <<"#c", "d", "e", "f">>),
     Line("", << >>),
     Line("  ", << >>),
     Line(" ", <<"#c", "x">>),
     Line("\t", <<"c", "#00ff00">>),
     Line("", <<"a", "b", "c">>)}

\* the text of a line: its words one space apart, a space after the last
RECURSIVE LineText(_)
LineText(line) ==
    IF line.words = << >> THEN line.lead
    ELSE line.lead \o Head(line.words) \o " "
         \o LineText(Line("", Tail(line.words)))

\* the text of a file of these lines
RECURSIVE FileText(_)
FileText(lines) ==
    IF lines = << >> THEN ""
    ELSE LineText(Head(lines)) \o "\n" \o FileText(Tail(lines))

MaxLines == 3

UrlTexts == UNION {[1..n -> LinePool] : n \in 0..MaxLines}

\* load_urls of the file made of lines
LoadUrls(lines) ==
    /\ ParseFrame("load_urls", lines)
    /\ LET out == load_urls(FileText(lines))
       IN /\ exc' = out.err
          /\ run_items' = out.urls
    /\ run_feeds' = << >>

NextParse ==
    \/ \E lines \in UrlTexts : LoadUrls(lines)
    \/ \E count \in ScoreCounts : \E eps \in [1..2 -> Jitter] : Score(count, eps)
    \/ \E raw \in RawItems : Construct(raw)
    \/ \E doc \in ParseDocs : Parse(doc)
    \/ \E doc \in ParseDocs : PkgParse(doc)

SpecParse == Init /\ [][NextParse]_vars

\* The program in use: update runs (the `update` command) and the web
\* application marking items read between them.
Next ==
    \/ \E urls \in UrlFiles : StartUpdate(urls)
    \/ \E resp \in Responses : \E eps \in [1..NItems(resp) -> Jitter] :
            Fetch(resp, eps)
    \/ WriteFeeds
    \/ WriteItems
    \/ \E item_id \in ItemIds : SetRead(item_id, MaxReads)

Spec == Init /\ [][Next]_vars

\* The process ends during App.update, between two statements: what the
\* statements before it committed stays, nothing of the rest is done.
Crash ==
    /\ pc \in {"update_feeds", "db.update_feeds", "db.insert_items"}
    /\ pc' = "idle"
    /\ exc' = "Killed"
    /\ run_feeds' = << >>
    /\ run_items' = << >>
    /\ UNCHANGED <<feeds, feeds_seq, items, requests, responses, call, arg, pre,
                   upserted, nruns, ncalls, scoring>>

\* The program in use, with runs that do not reach their end.
NextCrash ==
    \/ \E urls \in UrlFiles : StartUpdate(urls)
    \/ \E resp \in Responses : \E eps \in [1..NItems(resp) -> Jitter] :
            Fetch(resp, eps)
    \/ WriteFeeds
    \/ WriteItems
    \/ Crash

SpecCrash == Init /\ [][NextCrash]_vars

\* The `update` command of the package module, whose App.update and
\* whose Db.insert_urls, Db.get_feeds and Db.update_feeds are statement by
\* statement those of cli.py and db.py.
NextPkg ==
    \/ \E urls \in UrlFiles : StartUpdate(urls)
    \/ \E resp \in PkgResponses : \E eps \in [1..PkgNItems(resp) -> Jitter] :
            PkgFetch(resp, eps)
    \/ WriteFeeds
    \/ PkgWriteItems

SpecPkg == Init /\ [][NextPkg]_vars

\* The Db methods called one by one.
NextDb ==
    \/ \E urls \in UrlBatches : InsertUrls(urls)
    \/ \E fs \in FeedBatches : UpdateFeeds(fs)
    \/ \E batch \in ItemBatches : InsertItems(batch)
    \/ \E item_id \in ItemIds : SetRead(item_id, MaxCalls)
    \/ \E days \in {<< >>, Some(1)} :
        \E read \in {<< >>, Some(TRUE), Some(FALSE)} :
            \E now \in Clock : GetPosts(days, read, now)
    \/ \E feed_id \in {1, 2} : GetPostsById(feed_id)

SpecDb == Init /\ [][NextDb]_vars

(***************************************************************************)
(* The store.                                                              *)
(***************************************************************************)
BulkWrites == {"insert_urls", "update_feeds", "insert_items"}

RowsOfKey(rows, feed_id, guid) ==
    {r \in rows : r.feed_id = feed_id /\ r.guid = guid}

\* C1: every (feed_id, guid) ever upserted has exactly one row in items, and
\* that row carries the title, content, link, author, date, comments and
\* score of the last tuple upserted under the key.
C1_OneRowPerKeyWithLatestFields ==
    \A p \in upserted :
        /\ Cardinality(RowsOfKey(items, p.feed_id, p.guid)) = 1
        /\ \A r \in RowsOfKey(items, p.feed_id, p.guid) :
            /\ r.title = p.title
            /\ r.content = p.content
            /\ r.link = p.link
            /\ r.author = p.author
            /\ r.date = p.date
            /\ r.comments = p.comments
            /\ r.score = p.score

\* insert_items has committed a batch that rewrote a stored row in place:
\* same id and key, another title and score, and no row was added.
C1_Witness ==
    /\ call = "insert_items"
    /\ exc = None
    /\ Cardinality(items) = Cardinality(pre.items)
    /\ \E q \in pre.items : \E r \in items :
        /\ r.id = q.id /\ r.feed_id = q.feed_id /\ r.guid = q.guid
        /\ r.title # q.title
        /\ r.score # q.score

\* C2: an item is unread when it is first stored; no operation changes the
\* id or the key of a stored item; is_read becomes true exactly by set_read
\* on the item's id and is never reset; set_read changes nothing else.
C2_ReadSetOnlyBySetRead ==
    /\ \A r \in items :
        (\A q \in pre.items : q.id # r.id) => r.is_read = FALSE
    /\ \A q \in pre.items : \E r \in items :
        /\ r.id = q.id /\ r.feed_id = q.feed_id /\ r.guid = q.guid
        /\ r.is_read = (q.is_read \/ (call = "set_read" /\ arg = q.id))
    /\ call = "set_read" =>
        /\ \A q \in pre.items : q.id # arg => q \in items
        /\ \A q \in pre.items : q.id = arg => [q EXCEPT !.is_read = TRUE] \in items
        /\ Cardinality(items) = Cardinality(pre.items)

\* insert_items has rewritten (on the conflict path) an item that was read:
\* it is still read and has the same id.
C2_Witness ==
    /\ call = "insert_items"
    /\ exc = None
    /\ \E q \in pre.items : \E r \in items :
        /\ r.id = q.id /\ q.is_read /\ r.is_read /\ r.title # q.title

\* C7: a bulk write that raises leaves the tables (and the id counter) as
\* they were before the call.
C7_BulkWriteAtomic ==
    (call \in BulkWrites /\ exc # None) => Tables = pre

\* insert_urls raised on the second element of a batch whose first element
\* declares a url that was not stored.
C7_Witness ==
    /\ call = "insert_urls"
    /\ exc = "IntegrityError"
    /\ Len(arg) = 2
    /\ arg[1].link # None
    /\ \A r \in feeds : r.url # arg[1].link

\* the color of the last declaration of link in urls
LastColor(urls, link) ==
    LET last == CHOOSE i \in 1..Len(urls) :
                    /\ urls[i].link = link
                    /\ \A j \in (i + 1)..Len(urls) : urls[j].link # link
    IN urls[last].color

Declares(urls, link) == \E i \in 1..Len(urls) : urls[i].link = link

\* C10: no two rows of feeds share a url; after insert_urls, every url
\* declared has one row, carrying the last color declared for it; a row that
\* was stored keeps its id, title, description, etag and last_modified (and
\* its color when its url is not declared); no other row appears.
C10_InsertUrlsUpsertsByUrl ==
    /\ \A r \in feeds : \A q \in feeds : r.url = q.url => r = q
    /\ (call = "insert_urls" /\ exc = None) =>
        /\ \A i \in 1..Len(arg) :
            \E r \in feeds :
                r.url = arg[i].link /\ r.color = LastColor(arg, r.url)
        /\ \A q \in pre.feeds : \E r \in feeds :
            /\ r.id = q.id /\ r.url = q.url
            /\ r.title = q.title /\ r.description = q.description
            /\ r.etag = q.etag /\ r.last_modified = q.last_modified
            /\ ~Declares(arg, q.url) => r.color = q.color
        /\ \A r \in feeds :
            Declares(arg, r.url) \/ \E q \in pre.feeds : q.url = r.url

\* insert_urls has redeclared, without a color, a url stored with a color
\* and with metadata: the color is None now.
C10_Witness ==
    /\ call = "insert_urls"
    /\ exc = None
    /\ \E q \in pre.feeds : \E r \in feeds :
        /\ r.id = q.id
        /\ q.title # None
        /\ q.color # None
        /\ r.color = None

(***************************************************************************)
(* The update run.                                                         *)
(***************************************************************************)
\* update_feeds is running or has returned, and the run goes on
InRun == call = "update" /\ pc \in {"update_feeds", "db.update_feeds", "db.insert_items"}

\* App.update has returned without an exception
RunDone == call = "update" /\ pc = "idle" /\ exc = None

\* App.update was left by an exception raised for the last response
RunAborted ==
    call = "update" /\ pc = "idle" /\ exc # None /\ responses # << >>

NotModified(r) == r.exc = None /\ r.status_code = 304

Failed(r) ==
    \/ r.exc = "TimeoutException"
    \/ r.exc = None /\ r.status_code \notin {200, 304}

Parsed(r) ==
    r.exc = None /\ r.status_code = 200 /\ from_xml(r.text).err = None

Unparsable(r) ==
    r.exc = None /\ r.status_code = 200 /\ from_xml(r.text).err # None

SameMeta(a, b) ==
    /\ a.title = b.title
    /\ a.description = b.description
    /\ a.etag = b.etag
    /\ a.last_modified = b.last_modified

\* The subscription of a url as it was stored when the run started; a
\* subscription the run created had no metadata.
Prior(url) ==
    IF \E q \in pre.feeds : q.url = url
    THEN CHOOSE q \in pre.feeds : q.url = url
    ELSE FeedRow(0, url, None)

Stored(url) == CHOOSE r \in feeds : r.url = url

ItemsOf(rows, feed_id) == {r \in rows : r.feed_id = feed_id}

TuplesOf(feed_id) ==
    {j \in 1..Len(run_items) : run_items[j].feed_id = feed_id}

\* C3: a subscription answered 304 is skipped (the run is not aborted by
\* it, update_feeds collects no tuple for it and leaves its metadata as
\* stored), and when the run has returned its stored metadata and all its
\* stored items are what they were when the run started.
C3_NotModifiedChangesNothing ==
    /\ RunAborted => ~NotModified(Last(responses))
    /\ pc \in {"update_feeds", "db.update_feeds", "db.insert_items"} =>
        \A i \in 1..Len(responses) : NotModified(responses[i]) =>
            /\ TuplesOf(run_feeds[i].id) = {}
            /\ SameMeta(run_feeds[i], Prior(run_feeds[i].url))
    /\ RunDone =>
        \A i \in 1..Len(responses) : NotModified(responses[i]) =>
            LET row == Stored(requests[i].url) IN
            /\ SameMeta(row, Prior(row.url))
            /\ ItemsOf(items, row.id) = ItemsOf(pre.items, row.id)

\* A second run has returned in which a subscription with stored
\* validators and a stored item that was read was answered 304.
C3_Witness ==
    /\ RunDone
    /\ \E i \in 1..Len(responses) :
        /\ NotModified(responses[i])
        /\ Truthy(Stored(requests[i].url).etag)
        /\ \E it \in ItemsOf(items, Stored(requests[i].url).id) : it.is_read

\* C4: a timeout or a status other than 200 and 304 does not abort the run;
\* update_feeds collects no tuple for that subscription and leaves its
\* metadata as stored; when update_feeds returns, every subscription of the
\* list was requested, in order, and every item of every parsed response is
\* in the result under its subscription's id.
C4_FailedFetchIsSkipped ==
    /\ RunAborted => ~Failed(Last(responses))
    /\ pc \in {"update_feeds", "db.update_feeds"} =>
        \A i \in 1..Len(responses) : Failed(responses[i]) =>
            /\ TuplesOf(run_feeds[i].id) = {}
            /\ SameMeta(run_feeds[i], Prior(run_feeds[i].url))
    /\ pc = "db.update_feeds" =>
        /\ Len(responses) = Len(run_feeds)
        /\ \A i \in 1..Len(run_feeds) :
            /\ requests[i].url = run_feeds[i].url
            /\ Parsed(responses[i]) =>
                LET its == from_xml(responses[i].text).items IN
                /\ Cardinality(TuplesOf(run_feeds[i].id)) = Len(its)
                /\ \A n \in 1..Len(its) :
                    \E j \in TuplesOf(run_feeds[i].id) :
                        run_items[j].item = its[n]

\* update_feeds has returned after a failed first fetch and a second fetch
\* whose items it returns.
C4_Witness ==
    /\ pc = "db.update_feeds"
    /\ Len(responses) = 2
    /\ Failed(responses[1])
    /\ Parsed(responses[2])
    /\ TuplesOf(run_feeds[2].id) # {}

C6_ParseFailureAbortsTheRun ==
    /\ \A i \in 1..Len(responses) : Unparsable(responses[i]) =>
        /\ i = Len(responses)
        /\ RunAborted
        /\ exc = from_xml(responses[i].text).err
    /\ (RunAborted /\ Unparsable(Last(responses))) =>
        /\ items = pre.items
        /\ \A q \in pre.feeds : \E r \in feeds :
            r.id = q.id /\ r.url = q.url /\ SameMeta(r, q)
        /\ \A r \in feeds :
            (\A q \in pre.feeds : q.id # r.id) =>
                SameMeta(r, FeedRow(0, r.url, None))

\* A run was aborted by the second response after the first was parsed and
\* carried an ETag that is not the stored one.
C6_Witness ==
    /\ RunAborted
    /\ Len(responses) = 2
    /\ Unparsable(responses[2])
    /\ Parsed(responses[1])
    /\ Truthy(responses[1].etag)
    /\ Truthy(Stored(requests[1].url).etag)
    /\ responses[1].etag # Stored(requests[1].url).etag

Merged(new, old) == IF new = None \/ new = "" THEN old ELSE new

MergedMeta(f, resp, old) ==
    LET body == from_xml(resp.text) IN
    /\ f.title = Merged(body.title, old.title)
    /\ f.description = Merged(body.description, old.description)
    /\ f.etag = Merged(resp.etag, old.etag)
    /\ f.last_modified = Merged(resp.last_modified, old.last_modified)

NeverEmptied(q, r) ==
    /\ Truthy(q.title) => Truthy(r.title)
    /\ Truthy(q.description) => Truthy(r.description)
    /\ Truthy(q.etag) => Truthy(r.etag)
    /\ Truthy(q.last_modified) => Truthy(r.last_modified)

Validators(feed) ==
    (IF Truthy(feed.etag) THEN ("if-none-match" :> feed.etag) ELSE << >>)
    @@ (IF Truthy(feed.last_modified)
        THEN ("if-modified-since" :> feed.last_modified) ELSE << >>)

StoredUrls(rows) == {r.url : r \in rows}

StoredKeys(rows) == {<<r.feed_id, r.guid>> : r \in rows}

Links(urls) == {urls[i].link : i \in 1..Len(urls)}

\* In a run, get_feeds returns, and update_feeds requests, only
\* subscriptions of the list in use.
OnlyListedAreFetched ==
    call = "update" =>
        /\ \A i \in 1..Len(run_feeds) : run_feeds[i].url \in Links(arg)
        /\ \A i \in 1..Len(requests) : requests[i].url \in Links(arg)

\* C11: no step (of an update run, which opens the store, or of set_read)
\* removes a stored subscription URL or a stored (feed_id, guid) key, and a
\* run fetches only the subscriptions of its list.
C11_NothingIsDeleted ==
    /\ [][/\ StoredUrls(feeds) \subseteq StoredUrls(feeds')
          /\ StoredKeys(items) \subseteq StoredKeys(items')]_vars
    /\ []OnlyListedAreFetched

\* A run over a list without "a" has returned, a response was parsed in it,
\* and "a" is stored with an item.
C11_Witness ==
    /\ RunDone
    /\ "a" \notin Links(arg)
    /\ \E i \in 1..Len(responses) : Parsed(responses[i])
    /\ \E r \in feeds : r.url = "a" /\ ItemsOf(items, r.id) # {}

(***************************************************************************)
(* The parsers.                                                            *)
(***************************************************************************)
\* The guid rule for an item built from a GUID, a link and a content.
GuidRule(guid, raw_guid, link, content) ==
    /\ Truthy(raw_guid) => guid = raw_guid
    /\ (~Truthy(raw_guid) /\ Truthy(link)) => guid = link
    /\ (~Truthy(raw_guid) /\ ~Truthy(link)) =>
        /\ Truthy(guid)
        /\ \A r \in RawItems :
            (~Truthy(r.raw_guid) /\ ~Truthy(r.link) /\ r.content = content)
                => Item(r).guid = guid

\* C12: the guid of a constructed Item (by Item(...) or by the parser) is the
\* feed's GUID when that is non-empty, else the link when that is non-empty,
\* else a value every item with that content and no GUID and link gets.
C12_GuidPriority ==
    /\ (call = "Item" /\ exc = None) =>
        GuidRule(run_items[1].guid, arg.raw_guid, arg.link, arg.content)
    /\ (call = "from_xml" /\ exc = None) =>
        /\ Len(run_items) = Len(arg.entries)
        /\ \A i \in 1..Len(run_items) :
            GuidRule(run_items[i].guid, arg.entries[i].id,
                     arg.entries[i].link, arg.entries[i].content)

\* An Item was constructed from an empty GUID, an empty link and a content.
C12_Witness ==
    /\ call = "Item" /\ exc = None
    /\ arg.raw_guid = "" /\ arg.link = "" /\ Truthy(arg.content)
    /\ Len(run_items) = 1

\* An entry with nothing to derive a guid from.
NoKey(e) == ~Truthy(e.id) /\ ~Truthy(e.link) /\ ~Truthy(e.content)

\* An RSS document with its one channel, or an Atom document.
IsFeedDoc(doc) ==
    /\ doc.wellformed
    /\ \/ doc.root = "rss" /\ doc.channels = 1
       \/ doc.root # "rss" /\ EndsWith(doc.root, "feed")

\* C13: parsing a feed (RSS or Atom) with an entry that has no id, no link
\* and no content raises ValueError, and no Feed and no item is returned.
C13_EntryWithoutKeyFailsTheFeed ==
    (call = "from_xml" /\ IsFeedDoc(arg)
     /\ \E i \in 1..Len(arg.entries) : NoKey(arg.entries[i])) =>
        /\ exc = "ValueError"
        /\ run_feeds = << >>
        /\ run_items = << >>

\* An Atom document was parsed whose second entry has no id, link and
\* content, after a first entry that has them.
C13_Witness ==
    /\ call = "from_xml"
    /\ arg.wellformed /\ arg.root # "rss" /\ EndsWith(arg.root, "feed")
    /\ Len(arg.entries) = 2
    /\ ~NoKey(arg.entries[1]) /\ NoKey(arg.entries[2])
    /\ arg.entries[2].updated = NoDate
    /\ exc = "ValueError"

\* C14: a document whose root is neither rss nor ends in feed, and an rss
\* document without exactly one channel, fail with ValueError and return no
\* Feed.
C14_UnrecognizedDocumentIsValueError ==
    (call = "from_xml" /\ arg.wellformed
     /\ \/ arg.root # "rss" /\ ~EndsWith(arg.root, "feed")
        \/ arg.root = "rss" /\ arg.channels # 1) =>
        /\ exc = "ValueError"
        /\ run_feeds = << >>

\* C15: in the RSS branch an item whose pubDate does not parse is produced
\* with a null date, and the feed is parsed.
C15_UnparsablePubDateIsNullDate ==
    (call = "from_xml" /\ arg.wellformed /\ arg.root = "rss"
     /\ arg.channels = 1
     /\ \A i \in 1..Len(arg.entries) : ~NoKey(arg.entries[i])) =>
        /\ exc = None
        /\ Len(run_items) = Len(arg.entries)
        /\ \A i \in 1..Len(arg.entries) :
            arg.entries[i].pubDate = BadDate => run_items[i].date = NoDate

\* The children of an RSS <item> that are missing give None.
MissingGivesNone(e, it) ==
    /\ e.title = None => it.title = None
    /\ e.link = None => it.link = None
    /\ e.content = None => it.content = None
    /\ e.author = None => it.author = None
    /\ e.comments = None => it.comments = None
    /\ e.pubDate = NoDate => it.date = NoDate

\* C16: in the RSS branch of either parser, a feed whose items have
\* something to derive a guid from and no unparsable date is parsed, and
\* every missing child of an item gives None in the Item; an item without
\* pubDate has a null date whatever its position.
C16_MissingChildGivesNone ==
    (call \in {"from_xml", "pkg.from_xml"} /\ arg.wellformed
     /\ arg.root = "rss" /\ arg.channels = 1
     /\ \A i \in 1..Len(arg.entries) :
            ~NoKey(arg.entries[i]) /\ arg.entries[i].pubDate # BadDate) =>
        /\ exc = None
        /\ Len(run_items) = Len(arg.entries)
        /\ \A i \in 1..Len(arg.entries) :
            MissingGivesNone(arg.entries[i], run_items[i])

(***************************************************************************)
(* The queries.                                                            *)
(***************************************************************************)
\* get_posts() has returned: no days and no read argument
Unfiltered == call = "get_posts" /\ arg.days = << >> /\ arg.read = << >>

\* every stored item belongs to a stored subscription
FeedsStored == \A r \in items : \E q \in feeds : q.id = r.feed_id

\* the positions of the result that hold the item of a key
PostsOfKey(feed_id, guid) ==
    {i \in 1..Len(run_items) :
        run_items[i].feed_id = feed_id /\ run_items[i].inner.guid = guid}

\* C17: every item upserted (under a stored subscription) is returned by
\* get_posts() with the title, link, content, author, comments and guid it
\* was upserted with and its date in UTC, None staying None.
C17_StoredItemRoundTrip ==
    (Unfiltered /\ FeedsStored) =>
        \A p \in upserted : \E i \in PostsOfKey(p.feed_id, p.guid) :
            LET it == run_items[i].inner IN
            /\ it.title = p.title
            /\ it.link = p.link
            /\ it.content = p.content
            /\ it.author = p.author
            /\ it.comments = p.comments
            /\ it.date = p.date

\* C18: get_posts() returns every stored item (of a stored subscription)
\* exactly once.
C18_UnfilteredReturnsEverything ==
    (Unfiltered /\ FeedsStored) =>
        /\ Len(run_items) = Cardinality(upserted)
        /\ \A p \in upserted :
            Cardinality(PostsOfKey(p.feed_id, p.guid)) = 1

\* The UTC day of a datetime.
UtcDay(d) == astimezone_utc(d)[1] \div MinutesPerDay

\* C19: in a result of get_posts or get_posts_by_id, of two items the one
\* that stands first has the later or the same UTC day, and with the same
\* day (or both without a date) the greater or the same score; an item
\* without a date is followed only by items without a date.
C19_OrderedByDayThenScore ==
    call \in {"get_posts", "get_posts_by_id"} =>
        \A i, j \in 1..Len(run_items) : i < j =>
            LET a == run_items[i]
                b == run_items[j] IN
            /\ a.inner.date = NoDate => b.inner.date = NoDate
            /\ (a.inner.date # NoDate /\ b.inner.date # NoDate) =>
                /\ UtcDay(a.inner.date) >= UtcDay(b.inner.date)
                /\ UtcDay(a.inner.date) = UtcDay(b.inner.date)
                    => a.score >= b.score
            /\ (a.inner.date = NoDate /\ b.inner.date = NoDate) =>
                a.score >= b.score

\* get_posts has returned four items: the last has no date and the highest
\* score, and of two of the same day the first is the earlier one and has
\* the greater score.
C19_Witness ==
    /\ call = "get_posts"
    /\ Len(run_items) = 4
    /\ run_items[4].inner.date = NoDate
    /\ \A i \in 1..3 : run_items[i].score < run_items[4].score
    /\ \E i, j \in 1..3 :
        /\ i < j
        /\ UtcDay(run_items[i].inner.date) = UtcDay(run_items[j].inner.date)
        /\ run_items[i].inner.date[1] < run_items[j].inner.date[1]
        /\ run_items[i].score > run_items[j].score

(***************************************************************************)
(* C20: every score update_feeds gives is in (0, 1], and within one        *)
(* subscription's batch each item's score is strictly below that of the    *)
(* item before it, whatever the jitter drawn.                              *)
(***************************************************************************)
C20_ScoresPositiveAndDecreasing ==
    call = "initial_score" =>
        /\ \A i \in 1..2 : run_items[i] > 0 /\ run_items[i] <= 10000
        /\ run_items[2] < run_items[1]

(***************************************************************************)
(* The scoring model.                                                      *)
(***************************************************************************)
\* the sums of the per-token counts of a Model
UpSum(m) == SumValues([t \in DOMAIN m.tokens |-> m.tokens[t].up])
DownSum(m) == SumValues([t \in DOMAIN m.tokens |-> m.tokens[t].down])

SumsMatch(m) ==
    /\ UpSum(m) = m.up_total_tokens
    /\ DownSum(m) = m.down_total_tokens

\* the stored model, as the tables hold it
Persisted == Model_from_db(model, model_tokens)

(***************************************************************************)
(* C21: after any sequence of add_item calls on a model that started from  *)
(* a fresh store, the per-token up counts sum to up_total_tokens and the   *)
(* per-token down counts to down_total_tokens, in the instance and in the  *)
(* model and model_tokens tables.                                          *)
(***************************************************************************)
C21_TokenCountsSumToTotals ==
    /\ loaded[1] # << >> => SumsMatch(loaded[1][1])
    /\ model # {} => SumsMatch(Persisted)

\* three votes, one token voted both ways and up twice
C21_Witness ==
    /\ call = "add_item"
    /\ Len(applied[1]) = 3
    /\ \E q \in model_tokens : q.up >= 2 /\ q.down >= 1
    /\ Persisted.up_total_tokens >= 3

\* the votes of a history that went one way
VotesOf(votes, vote) == {k \in DOMAIN votes : votes[k].vote = vote}

\* the occurrences of token t in a document
Occurrences(document, t) ==
    Cardinality({j \in DOMAIN tokenize(document) : tokenize(document)[j] = t})

\* The model recomputed from all the votes of a history at once.
Batch(votes) ==
    LET ups == VotesOf(votes, "UP")
        downs == VotesOf(votes, "DOWN")
        Length(k) == Len(tokenize(votes[k].document))
        texts == UNION {{tokenize(votes[k].document)[j] :
                            j \in DOMAIN tokenize(votes[k].document)} :
                        k \in DOMAIN votes}
    IN [up_docs |-> Cardinality(ups),
        down_docs |-> Cardinality(downs),
        up_total_tokens |-> SumValues([k \in ups |-> Length(k)]),
        down_total_tokens |-> SumValues([k \in downs |-> Length(k)]),
        tokens |-> [t \in texts |->
            Token(SumValues([k \in ups |-> Occurrences(votes[k].document, t)]),
                  SumValues([k \in downs |->
                                Occurrences(votes[k].document, t)]))]]

(***************************************************************************)
(* C22: the instance trained one vote at a time equals the model           *)
(* recomputed from the votes applied: the document counters are the        *)
(* numbers of up and down votes, the token totals the token counts of the  *)
(* up and down documents, each token's counts its occurrences in them, in  *)
(* whatever order the votes came and with a repeated vote counted again.   *)
(***************************************************************************)
C22_IncrementalEqualsBatch ==
    loaded[1] # << >> => loaded[1][1] = Batch(applied[1])

\* the same vote applied twice, and a vote the other way
C22_Witness ==
    /\ Len(applied[1]) = 3
    /\ applied[1][1] = applied[1][2]
    /\ applied[1][3].vote # applied[1][1].vote
    /\ tokenize(applied[1][1].document) # << >>
    /\ loaded[1] # << >>
    /\ loaded[1][1].up_docs + loaded[1][1].down_docs = 3

(***************************************************************************)
(* C23: with one instance in use at a time, loaded, trained and loaded     *)
(* again any number of times, the stored counters and token counts equal   *)
(* those of the instance after every add_item, and a model loaded from the *)
(* store equals the instance: no token and no document is counted twice.   *)
(***************************************************************************)
C23_StoreFollowsTheInstance ==
    loaded[1] # << >> => Persisted = loaded[1][1]

\* a load after two votes on one token
C23_Witness ==
    /\ call = "from_db"
    /\ Len(applied[1]) >= 2
    /\ \E t \in DOMAIN loaded[1][1].tokens : loaded[1][1].tokens[t].up >= 2
    /\ Persisted = loaded[1][1]

\* the votes applied by all the instances
AllVotes(vote) ==
    SumValues([i \in Instances |-> Cardinality(VotesOf(applied[i], vote))])

(***************************************************************************)
(* C29: with two instances over one store, each applying add_item, the     *)
(* second having been loaded before the first one's update was stored      *)
(* included, the stored up_docs and down_docs are the numbers of votes     *)
(* applied and the stored per-token counts sum to the stored totals.       *)
(***************************************************************************)
C29_SharedStoreCountsEveryVote ==
    model # {} =>
        /\ Persisted.up_docs = AllVotes("UP")
        /\ Persisted.down_docs = AllVotes("DOWN")
        /\ SumsMatch(Persisted)

\* The step is an up vote by instance 1 for a document with token t in it
\* that leaves the vocabulary as it was.
UpvoteOf(t) ==
    /\ call' = "add_item"
    /\ loaded[1] # << >>
    /\ loaded'[1] # loaded[1]
    /\ arg'[3] = "UP"
    /\ t \in DOMAIN Counter(tokenize(arg'[2]))
    /\ DOMAIN loaded'[1][1].tokens = DOMAIN loaded[1][1].tokens

(***************************************************************************)
(* C24: with the vocabulary, alpha and beta fixed, an up vote for a        *)
(* document with token t in it strictly raises the score of every token    *)
(* sequence that contains t, other tokens in the sequence or not.          *)
(***************************************************************************)
C24_UpvotesRaiseTheScore ==
    [][\A t \in {"rust", "go"} : UpvoteOf(t) =>
            \A tokens \in {q \in TokenSeqs : t \in DOMAIN Counter(q)} :
                Model_score(loaded'[1][1], tokens, 1, 1)
                    > Model_score(loaded[1][1], tokens, 1, 1)]_vars

(***************************************************************************)
(* C25: whatever the model and the tokens, none, unseen ones and the       *)
(* empty vocabulary included, score returns a value strictly between 0     *)
(* and 1.                                                                  *)
(***************************************************************************)
C25_ScoreStrictlyBetween0And1 ==
    call = "score" => run_items[1] > SigmoidZero /\ run_items[1] < SigmoidOne

(***************************************************************************)
(* The subscription list.                                                  *)
(***************************************************************************)
\* the line starts with "#"
IsComment(line) ==
    line.lead = "" /\ line.words # << >> /\ SubSeq(line.words[1], 1, 1) = "#"

IsBlank(line) == line.words = << >>

\* the lines that are neither blank nor comments, in file order
Entries(lines) == SelectSeq(lines, LAMBDA l : ~IsBlank(l) /\ ~IsComment(l))

(***************************************************************************)
(* C26: load_urls returns one entry per line that is neither blank nor     *)
(* starts with "#", in file order, its color the second word or None;      *)
(* when such a line has more than two words the load fails with an error   *)
(* and returns no list.                                                    *)
(***************************************************************************)
C26_OneEntryPerLine ==
    call = "load_urls" =>
        LET es == Entries(arg)
        IN IF \E k \in DOMAIN es : Len(es[k].words) > 2
           THEN exc = "ValueError" /\ run_items = << >>
           ELSE /\ exc = None
                /\ run_items =
                    [k \in DOMAIN es |->
                        Url(es[k].words[1],
                            IF Len(es[k].words) = 2 THEN es[k].words[2]
                            ELSE None)]

\* a comment, an entry with a color and an entry without
C26_Witness ==
    /\ call = "load_urls"
    /\ Len(arg) = 3
    /\ \E k \in DOMAIN arg : IsComment(arg[k])
    /\ exc = None
    /\ Len(run_items) = 2
    /\ run_items[1].color = None
    /\ run_items[2].color = "#ff0000"

(***************************************************************************)
(* C27: the first open of the store leaves the tables empty and the row of *)
(* the model table with its four counters 0; every later open, whatever    *)
(* was done before, leaves every subscription, item, model counter and     *)
(* token count as it was.                                                  *)
(***************************************************************************)
C27_OpenInitialisesOnce ==
    [][call' = "open" =>
          IF model = {}
          THEN /\ model' = {ModelRow0}
               /\ model_tokens' = {} /\ feeds' = {} /\ items' = {}
          ELSE UNCHANGED <<feeds, feeds_seq, items, model, model_tokens>>]_vars

\* an open of a store that holds a subscription, an item and a trained model
C27_Witness ==
    /\ call = "open"
    /\ feeds # {} /\ items # {} /\ model_tokens # {}
    /\ \E r \in model : r.up_docs + r.down_docs > 0

(***************************************************************************)
(* Update runs that end early.                                             *)
(***************************************************************************)
\* The run advanced a stored validator of the subscription to that of the
\* response.
Advanced(url, r) ==
    \/ Truthy(r.etag) /\ Stored(url).etag = r.etag /\ Prior(url).etag # r.etag
    \/ /\ Truthy(r.last_modified)
       /\ Stored(url).last_modified = r.last_modified
       /\ Prior(url).last_modified # r.last_modified

\* The items parsed from the response are stored under the subscription.
ItemsStored(url, r) ==
    LET body == from_xml(r.text)
    IN \A k \in DOMAIN body.items :
        \E row \in items :
            row.feed_id = Stored(url).id /\ row.guid = body.items[k].guid

(***************************************************************************)
(* C28: when an update run is over, a run that failed or was cut short     *)
(* between its two writes included, a subscription's stored etag or        *)
(* last_modified has been advanced to the validators of a response only if *)
(* the items parsed from that response are stored.                         *)
(***************************************************************************)
C28_ValidatorsAdvanceOnlyWithItems ==
    (call = "update" /\ pc = "idle") =>
        \A i \in DOMAIN responses :
            (Parsed(responses[i]) /\ Advanced(requests[i].url, responses[i]))
                => ItemsStored(requests[i].url, responses[i])

====
